---- MODULE Spec2Model ----
(***************************************************************************)
(* Verification model of the forgery-scoring engine of DocValidator_AI     *)
(* (server/ai/processor.js, class EnhancedForgeryDetector).                *)
(*                                                                         *)
(* Number representation.  The JavaScript code computes with decimal       *)
(* literals; the model keeps them exact as scaled integers:                *)
(*   - weights are in hundredths (0.25 -> 25), severities and the          *)
(*     suspicious-area ratio in tenths (0.8 -> 8), so a score is an        *)
(*     integer number of thousandths (0.67 -> 670, 0.6 -> 600, 1 -> 1000); *)
(*   - grey-level intensities are in units of 1/IntensityScale grey level, *)
(*     so that block means with one decimal and averages over groups of    *)
(*     up to nine blocks stay integers.                                    *)
(***************************************************************************)
EXTENDS Integers, Sequences, FiniteSets, TLC

Min(a, b) == IF a < b THEN a ELSE b
Max(a, b) == IF a > b THEN a ELSE b

(***************************************************************************)
(* calculateForgeryScore (processor.js 846-887)                            *)
(***************************************************************************)
\* mutant: the suspicious areas weigh 0.40
weightsHeavy ==
  [ela |-> 25, compression |-> 20, metadata |-> 15, noise |-> 20,
   edges |-> 10, suspiciousAreas |-> 40]

weights ==
  [ela |-> 25, compression |-> 20, metadata |-> 15, noise |-> 20,
   edges |-> 10, suspiciousAreas |-> 10]

\* mutant: the ratio is not capped at 1
suspiciousAreaScoreUncapped(n) == n

\* Math.min(analyses.suspiciousAreas.length / 10, 1), in tenths
suspiciousAreaScore(n) == Min(n, 10)

\* mutant: the edge contribution is assigned (=) instead of added (+=)
calculateForgeryScoreAssigned(analyses) ==
  LET s1 == IF analyses.elaAnalysis.hasAnomalies
              THEN weights.ela * 8 ELSE 0
      s2 == s1 + (IF analyses.compressionAnalysis.hasInconsistentCompression
                    THEN weights.compression * 7 ELSE 0)
      s3 == s2 + (IF analyses.metadataAnalysis.hasInconsistentMetadata
                    THEN weights.metadata * 6 ELSE 0)
      s4 == s3 + (IF analyses.noiseAnalysis.hasInconsistentNoise
                    THEN weights.noise * 5 ELSE 0)
      s5 == IF analyses.edgeAnalysis.hasInconsistentEdges
              THEN weights.edges * 4 ELSE s4
      s6 == s5 + weights.suspiciousAreas
                   * suspiciousAreaScore(Len(analyses.suspiciousAreas))
  IN  Min(s6, 1000)

calculateForgeryScore(analyses) ==
  LET s1 == IF analyses.elaAnalysis.hasAnomalies
              THEN weights.ela * 8 ELSE 0
      s2 == s1 + (IF analyses.compressionAnalysis.hasInconsistentCompression
                    THEN weights.compression * 7 ELSE 0)
      s3 == s2 + (IF analyses.metadataAnalysis.hasInconsistentMetadata
                    THEN weights.metadata * 6 ELSE 0)
      s4 == s3 + (IF analyses.noiseAnalysis.hasInconsistentNoise
                    THEN weights.noise * 5 ELSE 0)
      s5 == s4 + (IF analyses.edgeAnalysis.hasInconsistentEdges
                    THEN weights.edges * 4 ELSE 0)
      s6 == s5 + weights.suspiciousAreas
                   * suspiciousAreaScore(Len(analyses.suspiciousAreas))
  IN  Min(s6, 1000)

\* mutant: the verdict threshold is inclusive
isForgeryOfInclusive(forgeryScore) == forgeryScore >= 600

\* mutant: the verdict threshold is 0.5
isForgeryOfLow(forgeryScore) == forgeryScore > 500

\* analyzeImage line 231: isForgery: forgeryScore > 0.6
isForgeryOf(forgeryScore) == forgeryScore > 600

(***************************************************************************)
(* generateDetailedAnalysis (processor.js 889-917).  The report is kept as *)
(* its tier and the list of findings that the template string joins; the   *)
(* "appears authentic" text carries no findings.                           *)
(***************************************************************************)
\* mutant: the tier boundaries are inclusive
generateDetailedAnalysisInclusive(forgeryScore, analyses) ==
  IF forgeryScore >= 800 THEN [tier |-> "HIGH RISK", findings |-> <<>>]
  ELSE IF forgeryScore >= 600 THEN [tier |-> "MEDIUM RISK", findings |-> <<>>]
  ELSE IF forgeryScore >= 300 THEN [tier |-> "LOW RISK", findings |-> <<>>]
  ELSE [tier |-> "appears authentic", findings |-> <<>>]

generateDetailedAnalysis(forgeryScore, analyses) ==
  LET f1 == IF analyses.elaAnalysis.hasAnomalies
              THEN <<"Error Level Analysis detected potential tampering areas">>
              ELSE <<>>
      f2 == IF analyses.compressionAnalysis.hasInconsistentCompression
              THEN <<"Inconsistent JPEG compression patterns found">>
              ELSE <<>>
      f3 == IF analyses.metadataAnalysis.hasInconsistentMetadata
              THEN <<"Metadata inconsistencies detected">>
              ELSE <<>>
      f4 == IF Len(analyses.suspiciousAreas) > 5
              THEN <<"suspicious regions identified">>
              ELSE <<>>
      findings == f1 \o f2 \o f3 \o f4
  IN  IF forgeryScore > 800
        THEN [tier |-> "HIGH RISK", findings |-> findings]
        ELSE IF forgeryScore > 600
          THEN [tier |-> "MEDIUM RISK", findings |-> findings]
          ELSE IF forgeryScore > 300
            THEN [tier |-> "LOW RISK", findings |-> findings]
            ELSE [tier |-> "appears authentic", findings |-> <<>>]

(***************************************************************************)
(* Suspicious-region detector (processor.js 714-844).                      *)
(*                                                                         *)
(* A greyscale image is kept at block granularity: its pixel width and     *)
(* height and, row-major, the mean intensity of each 32x32 block (what     *)
(* calculateBlockIntensity returns for that block).                        *)
(***************************************************************************)
\* 2 (means with half grey levels) * 2520 (= lcm(1..10), exact group averages)
IntensityScale == 2 * 2520

blockSize == 32
maxAreas == 20
nearbyThreshold == 50
\* config.ai.forgery.suspiciousAreaThreshold = 0.7, in tenths
suspiciousAreaThreshold == 7

CeilDiv(a, b) == (a + b - 1) \div b
BlocksWide(g) == CeilDiv(g.width, blockSize)
BlocksHigh(g) == CeilDiv(g.height, blockSize)

\* calculateBlockIntensity(data, x, y, blockSize, info.width): the mean of the
\* block whose top-left pixel is (x, y)
calculateBlockIntensity(g, x, y) ==
  g.mean[(y \div blockSize) * BlocksWide(g) + (x \div blockSize) + 1]

\* mutant: the thresholds are inclusive
classifySuspiciousAreaInclusive(intensity) ==
  IF intensity >= 200 * IntensityScale THEN "high_manipulation"
  ELSE IF intensity >= 150 * IntensityScale THEN "medium_manipulation"
  ELSE IF intensity >= 100 * IntensityScale THEN "low_manipulation"
  ELSE "noise"

\* mutant: medium_manipulation starts above 180
classifySuspiciousAreaShifted(intensity) ==
  IF intensity > 200 * IntensityScale THEN "high_manipulation"
  ELSE IF intensity > 180 * IntensityScale THEN "medium_manipulation"
  ELSE IF intensity > 100 * IntensityScale THEN "low_manipulation"
  ELSE "noise"

classifySuspiciousArea(intensity) ==
  IF intensity > 200 * IntensityScale THEN "high_manipulation"
  ELSE IF intensity > 150 * IntensityScale THEN "medium_manipulation"
  ELSE IF intensity > 100 * IntensityScale THEN "low_manipulation"
  ELSE "noise"

\* the record pushed at lines 734-742; confidence 1.0 is 255 * IntensityScale
BlockArea(g, x, y) ==
  LET blockIntensity == calculateBlockIntensity(g, x, y)
  IN  [x |-> x, y |-> y,
       width |-> Min(blockSize, g.width - x),
       height |-> Min(blockSize, g.height - y),
       confidence |-> Min(blockIntensity, 255 * IntensityScale),
       type |-> classifySuspiciousArea(blockIntensity),
       intensity |-> blockIntensity]

\* mutant: a block at exactly the threshold is flagged
IsFlaggedInclusive(blockIntensity) ==
  10 * blockIntensity >= suspiciousAreaThreshold * 255 * IntensityScale

\* line 733: blockIntensity > config.ai.forgery.suspiciousAreaThreshold * 255
IsFlagged(blockIntensity) ==
  10 * blockIntensity > suspiciousAreaThreshold * 255 * IntensityScale

\* the two nested loops of lines 729-745: flagged blocks in row-major order
FlaggedBlocks(g) ==
  LET bw == BlocksWide(g)
      n == bw * BlocksHigh(g)
      all == [k \in 1..n |->
                BlockArea(g, ((k - 1) % bw) * blockSize,
                             ((k - 1) \div bw) * blockSize)]
  IN  SelectSeq(all, LAMBDA a : IsFlagged(a.intensity))

\* mutant: areas at exactly the threshold distance count as nearby
areAreasNearbyInclusive(area1, area2, threshold) ==
  LET cx1 == 2 * area1.x + area1.width
      cy1 == 2 * area1.y + area1.height
      cx2 == 2 * area2.x + area2.width
      cy2 == 2 * area2.y + area2.height
  IN  (cx2 - cx1) * (cx2 - cx1) + (cy2 - cy1) * (cy2 - cy1)
        <= (2 * threshold) * (2 * threshold)

\* distance between the two centers < threshold, compared on doubled
\* coordinates so that the half-pixel centers stay integers
areAreasNearby(area1, area2, threshold) ==
  LET cx1 == 2 * area1.x + area1.width
      cy1 == 2 * area1.y + area1.height
      cx2 == 2 * area2.x + area2.width
      cy2 == 2 * area2.y + area2.height
  IN  (cx2 - cx1) * (cx2 - cx1) + (cy2 - cy1) * (cy2 - cy1)
        < (2 * threshold) * (2 * threshold)

RECURSIVE SeqSum(_)
SeqSum(s) == IF s = <<>> THEN 0 ELSE Head(s) + SeqSum(Tail(s))
RECURSIVE SeqMin(_)
SeqMin(s) == IF Len(s) = 1 THEN s[1] ELSE Min(Head(s), SeqMin(Tail(s)))
RECURSIVE SeqMax(_)
SeqMax(s) == IF Len(s) = 1 THEN s[1] ELSE Max(Head(s), SeqMax(Tail(s)))

mergeAreaGroup(group) ==
  LET n == Len(group)
      minX == SeqMin([k \in 1..n |-> group[k].x])
      minY == SeqMin([k \in 1..n |-> group[k].y])
      maxX == SeqMax([k \in 1..n |-> group[k].x + group[k].width])
      maxY == SeqMax([k \in 1..n |-> group[k].y + group[k].height])
      avgConfidence == SeqSum([k \in 1..n |-> group[k].confidence]) \div n
      avgIntensity == SeqSum([k \in 1..n |-> group[k].intensity]) \div n
  IN  [x |-> minX, y |-> minY,
       width |-> maxX - minX, height |-> maxY - minY,
       confidence |-> avgConfidence,
       type |-> classifySuspiciousArea(avgIntensity),
       intensity |-> avgIntensity,
       mergedCount |-> n]

\* mutant: a block that is already in a group is absorbed again
RECURSIVE AbsorbedAgain(_, _, _, _)
AbsorbedAgain(areas, i, j, processed) ==
  IF j > Len(areas) THEN <<>>
  ELSE IF areAreasNearby(areas[i], areas[j], nearbyThreshold)
    THEN <<j>> \o AbsorbedAgain(areas, i, j + 1, processed)
    ELSE AbsorbedAgain(areas, i, j + 1, processed)

\* the inner loop of lines 791-799: indices j > i absorbed by seed i
RECURSIVE Absorbed(_, _, _, _)
Absorbed(areas, i, j, processed) ==
  IF j > Len(areas) THEN <<>>
  ELSE IF j \notin processed /\ areAreasNearby(areas[i], areas[j], nearbyThreshold)
    THEN <<j>> \o Absorbed(areas, i, j + 1, processed)
    ELSE Absorbed(areas, i, j + 1, processed)

Range(s) == {s[k] : k \in 1..Len(s)}

\* the outer loop of lines 783-807: the groups, before the cap
RECURSIVE MergeLoop(_, _, _)
MergeLoop(areas, i, processed) ==
  IF i > Len(areas) THEN <<>>
  ELSE IF i \in processed THEN MergeLoop(areas, i + 1, processed)
  ELSE LET js == Absorbed(areas, i, i + 1, processed \cup {i})
           group == <<areas[i]>> \o [k \in 1..Len(js) |-> areas[js[k]]]
           entry == IF Len(group) > 1 THEN mergeAreaGroup(group) ELSE areas[i]
       IN  <<entry>> \o MergeLoop(areas, i + 1, processed \cup {i} \cup Range(js))

\* mutant: the result is not capped
SliceAll(merged) == merged

\* merged.slice(0, 20)
SliceTop(merged) == SubSeq(merged, 1, Min(maxAreas, Len(merged)))

\* mutant: the groups are put in reverse order before the cut
mergeSuspiciousAreasReversed(areas) ==
  LET merged == MergeLoop(areas, 1, {})
  IN  SliceTop([k \in 1..Len(merged) |-> merged[Len(merged) + 1 - k]])

mergeSuspiciousAreas(areas) == SliceTop(MergeLoop(areas, 1, {}))

(***************************************************************************)
(* Metadata check (processor.js 538-558).  Strings are sequences of        *)
(* one-character strings so that toLowerCase and includes are computed.    *)
(***************************************************************************)
LowerOf(c) ==
  CASE c = "A" -> "a" [] c = "B" -> "b" [] c = "C" -> "c" [] c = "D" -> "d"
    [] c = "E" -> "e" [] c = "G" -> "g" [] c = "H" -> "h" [] c = "I" -> "i"
    [] c = "M" -> "m" [] c = "N" -> "n" [] c = "O" -> "o" [] c = "P" -> "p"
    [] c = "S" -> "s" [] c = "T" -> "t" [] OTHER -> c

toLowerCase(str) == [k \in 1..Len(str) |-> LowerOf(str[k])]

includes(str, sub) ==
  \E k \in 0..(Len(str) - Len(sub)) : SubSeq(str, k + 1, k + Len(sub)) = sub

suspiciousSoftware ==
  << <<"p","h","o","t","o","s","h","o","p">>,
     <<"g","i","m","p">>,
     <<"p","a","i","n","t",".","n","e","t">> >>

\* exifData.DateTime / exifData.Software: absent (undefined), or a value.
\* new Date(str) is a time, or Invalid Date when str does not parse; every
\* comparison with Invalid Date is false.
Absent == [present |-> FALSE, valid |-> FALSE, time |-> 0]
DateAt(t) == [present |-> TRUE, valid |-> TRUE, time |-> t]
InvalidDate == [present |-> TRUE, valid |-> FALSE, time |-> 0]

\* mutant: a creation date equal to the analysis time counts as future
checkMetadataConsistencyNotStrict(exifData, now) ==
  \/ /\ exifData.DateTime.present
     /\ exifData.DateTime.valid
     /\ exifData.DateTime.time >= now
  \/ /\ exifData.Software # <<>>
     /\ \E k \in 1..Len(suspiciousSoftware) :
          includes(toLowerCase(exifData.Software), suspiciousSoftware[k])

checkMetadataConsistency(exifData, now) ==
  LET futureDate == exifData.DateTime.present
                    /\ exifData.DateTime.valid
                    /\ exifData.DateTime.time > now
      editedBy == exifData.Software # <<>>
                  /\ \E k \in 1..Len(suspiciousSoftware) :
                       includes(toLowerCase(exifData.Software),
                                suspiciousSoftware[k])
      inconsistencies ==
        (IF futureDate THEN <<"Creation date is in the future">> ELSE <<>>)
        \o (IF editedBy
              THEN <<"Image edited with photo manipulation software">>
              ELSE <<>>)
  IN  Len(inconsistencies) > 0

(***************************************************************************)
(* Paths and files.  A path is a stem and an extension; performELA derives *)
(* the path of the difference image with                                   *)
(*   imagePath.replace(/\.(jpg|jpeg|png)$/i, '_ela.jpg')   (line 257)      *)
(***************************************************************************)
Path(stem, ext) == [stem |-> stem, ext |-> ext]

MatchesImageExt(ext) ==
  ext \in {"jpg", "JPG", "jpeg", "JPEG", "png", "PNG"}

elaOutputPath(imagePath) ==
  IF MatchesImageExt(imagePath.ext)
    THEN Path(imagePath.stem \o "_ela", "jpg")
    ELSE imagePath

(***************************************************************************)
(* Images.  An image is described by what the external collaborators       *)
(* (sharp, the Python scripts) return for it: the statistics and the       *)
(* greyscale block means of its double-compression difference image, the   *)
(* number of inconsistent blocks the compression script reports, its       *)
(* global noise variance, its edge ratio (in thousandths) and its EXIF     *)
(* fields.  brightBlocks describes the image downsampled to 100 x 100: the *)
(* first brightBlocks of its 8x8 blocks are white, the others black.       *)
(***************************************************************************)
Grid(w, h, mean) == [width |-> w, height |-> h, mean |-> mean]

BlankGrid == Grid(2 * blockSize, 2 * blockSize, <<0, 0, 0, 0>>)

\* one row of blocks: k bright blocks, each followed by a dark one
StripGrid(k, level) ==
  IF k = 0 THEN BlankGrid
  ELSE Grid((2 * k - 1) * blockSize, blockSize,
            [b \in 1..(2 * k - 1) |->
               IF b % 2 = 1 THEN level * IntensityScale ELSE 0])

GridMax(g) == SeqMax(g.mean)

NoExif == [DateTime |-> Absent, Software |-> <<>>]

\* a difference image read as if it were a source image: dark, flat, no EXIF
DarkImage ==
  [diffGrid |-> BlankGrid,
   elaStats |-> [maxIntensity |-> 0, variance |-> 0],
   inconsistentBlocks |-> 0, brightBlocks |-> 0,
   noiseVariance |-> 0, edgeRatio |-> 0,
   exif |-> NoExif]

\* file contents: nothing, a source image, or the difference image that
\* invocation "by" computed from image "img"
NoFile == [kind |-> "none", img |-> DarkImage, by |-> "nobody"]
SourceFile(img) == [kind |-> "source", img |-> img, by |-> "caller"]
ElaFile(img, i) == [kind |-> "ela", img |-> img, by |-> i]

\* what sharp(path) decodes for the analyzers of the source image
Seen(file) == IF file.kind = "source" THEN file.img ELSE DarkImage

\* what sharp(elaImagePath).greyscale().raw() gives the detector
GreyBlocks(file) == IF file.kind = "ela" THEN file.img.diffGrid ELSE BlankGrid

(***************************************************************************)
(* The five analyzers, as functions of the file they read.  "fails" is the *)
(* outcome of the external collaborator (decode error, script error).      *)
(***************************************************************************)
NoPath == Path("", "")

Pending == [status |-> "pending"]
Running == [status |-> "running"]

\* performELA lines 278-282
ElaReturn(outputPath, elaBuffer) ==
  LET stats == elaBuffer.img.elaStats
  IN  [status |-> "ok",
       elaImagePath |-> outputPath,
       statistics |-> stats,
       hasAnomalies |-> stats.maxIntensity > 50 \/ stats.variance > 1000]

\* performELA lines 283-286: logged and rethrown
ElaThrow(stage) == [status |-> "failed", stage |-> stage]

\* generateCompressionMap (415-435): sharp(imagePath).resize(100, 100), then
\* one entry per 8x8 block, row by row; quality is the block's mean intensity
compressionSize == 100
compressionBlockSize == 8

generateCompressionMap(img) ==
  LET bw == CeilDiv(compressionSize, compressionBlockSize)
      bh == CeilDiv(compressionSize, compressionBlockSize)
  IN  [k \in 1..(bw * bh) |->
         [x |-> ((k - 1) % bw) * compressionBlockSize,
          y |-> ((k - 1) \div bw) * compressionBlockSize,
          width |-> compressionBlockSize,
          height |-> compressionBlockSize,
          quality |-> IF k <= img.brightBlocks THEN 255 ELSE 0]]

\* the sum s[lo] + ... + s[hi] of a reduce, by halves
RECURSIVE SumRange(_, _, _)
SumRange(s, lo, hi) ==
  IF lo > hi THEN 0
  ELSE IF lo = hi THEN s[lo]
  ELSE LET mid == (lo + hi) \div 2
       IN  SumRange(s, lo, mid) + SumRange(s, mid + 1, hi)

\* calculateQualityVariance (470-480), as exact fractions over the block
\* count n: mean = sum / n, variance = spread / n^2
calculateQualityVariance(compressionMap) ==
  LET n == Len(compressionMap)
      sum == SumRange([k \in 1..n |-> compressionMap[k].quality], 1, n)
      squares ==
        SumRange([k \in 1..n |->
                    compressionMap[k].quality * compressionMap[k].quality],
                 1, n)
  IN  [count |-> n, sum |-> sum, spread |-> n * squares - sum * sum]

\* analyzeCompressionPatterns (455-468);
\* |quality - mean| > 2 * stdDev, compared as squares times n^2
analyzeCompressionPatterns(artifacts, compressionMap) ==
  LET qualityVariance == calculateQualityVariance(compressionMap)
      n == qualityVariance.count
      suspiciousBlocks ==
        SelectSeq(compressionMap,
                  LAMBDA block :
                    (n * block.quality - qualityVariance.sum)
                      * (n * block.quality - qualityVariance.sum)
                    > 4 * qualityVariance.spread)
  IN  [suspiciousBlockCount |-> Len(suspiciousBlocks),
       overallSuspicion |->
         IF Len(suspiciousBlocks) > 5 THEN "high"
         ELSE IF Len(suspiciousBlocks) > 2 THEN "medium" ELSE "low"]

\* the compression script reports 0..MaxBlocks inconsistent blocks; 0 to
\* MaxBlocks blocks of the downsampled image are white
MaxBlocks == 7

\* line 374 for every image considered: the analysis depends on the image
\* through these two numbers alone and is evaluated once for each pair
compressionAnalyses ==
  [blocks \in 0..MaxBlocks, bright \in 0..MaxBlocks |->
     analyzeCompressionPatterns([inconsistentBlocks |-> blocks],
                                generateCompressionMap([brightBlocks |-> bright]))]

analyzeCompression(file, fails) ==
  IF fails
    THEN [status |-> "returned", hasInconsistentCompression |-> FALSE,
          error |-> TRUE]
    ELSE LET compressionArtifacts ==
               [inconsistentBlocks |-> Seen(file).inconsistentBlocks]
         IN  [status |-> "returned",
              hasInconsistentCompression |->
                compressionArtifacts.inconsistentBlocks > 5,
              analysis |->
                compressionAnalyses[compressionArtifacts.inconsistentBlocks,
                                    Seen(file).brightBlocks],
              error |-> FALSE]

analyzeMetadata(file, now, fails) ==
  IF fails
    THEN [status |-> "returned", hasInconsistentMetadata |-> FALSE,
          error |-> TRUE]
    ELSE [status |-> "returned",
          hasInconsistentMetadata |->
            checkMetadataConsistency(Seen(file).exif, now),
          error |-> FALSE]

\* mutant: the catch block reports an anomaly
analyzeNoiseFailClosed(file, fails) ==
  IF fails
    THEN [status |-> "returned", hasInconsistentNoise |-> TRUE,
          error |-> TRUE]
    ELSE [status |-> "returned",
          hasInconsistentNoise |-> Seen(file).noiseVariance > 1000,
          error |-> FALSE]

analyzeNoise(file, fails) ==
  IF fails
    THEN [status |-> "returned", hasInconsistentNoise |-> FALSE,
          error |-> TRUE]
    ELSE [status |-> "returned",
          hasInconsistentNoise |-> Seen(file).noiseVariance > 1000,
          error |-> FALSE]

\* inconsistencyScore = |edgeRatio - 0.1| > 0.3, in thousandths
Abs(a) == IF a < 0 THEN 0 - a ELSE a

analyzeEdges(file, fails) ==
  IF fails
    THEN [status |-> "returned", hasInconsistentEdges |-> FALSE,
          error |-> TRUE]
    ELSE [status |-> "returned",
          hasInconsistentEdges |-> Abs(Seen(file).edgeRatio - 100) > 300,
          error |-> FALSE]

\* detectSuspiciousAreas lines 714-753; "file" is what elaImagePath holds
\* mutant: the result of a failed reading is not discarded
detectSuspiciousAreasKept(ela, file, fails) ==
  IF ela.elaImagePath = NoPath THEN <<>>
  ELSE mergeSuspiciousAreas(FlaggedBlocks(GreyBlocks(file)))

\* lines 721-724 throw: decoding fails or there is no file at the path
detectorThrows(ela, file, fails) ==
  ela.elaImagePath # NoPath /\ (fails \/ file.kind = "none")

detectSuspiciousAreas(ela, file, fails) ==
  IF ela.elaImagePath = NoPath THEN <<>>
  ELSE IF fails \/ file.kind = "none" THEN <<>>
  ELSE mergeSuspiciousAreas(FlaggedBlocks(GreyBlocks(file)))

\* analyzeImage lines 221-245
BuildResult(analyses) ==
  LET forgeryScore == calculateForgeryScore(analyses)
  IN  [status |-> "returned",
       isForgery |-> isForgeryOf(forgeryScore),
       forgeryScore |-> forgeryScore,
       suspiciousAreas |-> analyses.suspiciousAreas,
       analysis |-> generateDetailedAnalysis(forgeryScore, analyses)]

NoResult == [status |-> "none"]

(***************************************************************************)
(* State of the pipeline: concurrent invocations of analyzeImage over one  *)
(* file system.                                                            *)
(***************************************************************************)
VARIABLES
  callers,              \* the invocations that take place
  faulty,               \* the collaborators that may fail in this environment
  fs,                   \* the files: path -> contents
  imagePath,            \* per invocation: the argument of analyzeImage
  now,                  \* per invocation: what new Date() returns
  pc,                   \* per invocation: position in analyzeImage
  elaBuffer,            \* per invocation: performELA's local elaBuffer
  elaAnalysis, compressionAnalysis, metadataAnalysis, noiseAnalysis,
  edgeAnalysis,         \* per invocation: the five analyzer results
  suspiciousAreas,      \* per invocation: the detector's result
  result,               \* per invocation: the returned ForgeryAnalysis
  sourceAtStart,        \* history: the source file when analyzeImage began
  detectorRead,         \* history: the file the detector decoded
  detectorError         \* history: the detector's catch block ran

pipeVars ==
  <<callers, faulty, fs, imagePath, now, pc, elaBuffer, elaAnalysis,
    compressionAnalysis, metadataAnalysis, noiseAnalysis, edgeAnalysis,
    suspiciousAreas, result, sourceAtStart, detectorRead, detectorError>>

VARIABLES
  analysesLo, analysesHi,   \* two inputs of calculateForgeryScore
  scoreLo, scoreHi          \* what calculateForgeryScore returned for them

scoreVars == <<analysesLo, analysesHi, scoreLo, scoreHi>>

VARIABLES
  call,                     \* the function last called, with its arguments
  ret                       \* what that call returned

unitVars == <<call, ret>>

\* no function has been called
NoCall == [fn |-> "none", args |-> <<>>]

UnitIdle ==
  /\ call = NoCall
  /\ ret = <<>>

VARIABLES
  uploaded,                 \* per request: the file content and the options
  reqPc,                    \* per request: position in the handler
  processed,                \* per request: what processDocument returned
  response,                 \* per request: the response sent
  cache                     \* cacheManager: key -> cached result

reqVars == <<uploaded, reqPc, processed, response, cache>>

\* the requests to POST /validate-document and the file contents they carry
Requests == {"r1", "r2", "r3"}
Contents == {"aadhaar", "pan"}

\* req.validatedData (middleware/validation.js 67-71): one set of options
\* and the three that differ from it in one option
Options(documentType, strictMode, enableHighlighting) ==
  [documentType |-> documentType, strictMode |-> strictMode,
   enableHighlighting |-> enableHighlighting]
ValidatedData ==
  {Options("aadhaar_card", FALSE, TRUE), Options("pan_card", FALSE, TRUE),
   Options("aadhaar_card", TRUE, TRUE), Options("aadhaar_card", FALSE, FALSE)}

UploadOf(content, validatedData) ==
  [content |-> content, validatedData |-> validatedData]
Uploads == {UploadOf(c, d) : c \in Contents, d \in ValidatedData}

\* JavaScript values: strings and objects
Str(s) == [type |-> "string", value |-> s]
Obj(fields) == [type |-> "object", value |-> fields]

\* ToString, as Array.prototype.join applies it to each element
JsToString(v) == IF v.type = "string" THEN v.value ELSE "[object Object]"

\* CacheManager.generateKey(...args): md5 of args.join('|').  The key is
\* kept as the sequence of the joined parts: none of them contains '|' and
\* md5 is taken to separate different strings
generateKey(args) == [k \in 1..Len(args) |-> JsToString(args[k])]

\* imageProcessor.calculateImageHash: the hex SHA-256 digest of the file's
\* bytes, kept as a digest named after the content it was taken of
\* (different contents are taken to have different digests)
calculateImageHash(content) == "sha256:" \o content

\* line 123
CacheKey(upload) ==
  generateKey(<<Str("document"), Str(calculateImageHash(upload.content)),
                Obj(upload.validatedData)>>)

CacheKeys == {CacheKey(u) : u \in Uploads}

NoEntry == [id |-> "none"]
NoResponse == [status |-> 0, id |-> "none", cached |-> FALSE]

\* the server is up, no request has arrived, the cache is empty
ReqIdle ==
  /\ uploaded = [r \in Requests |->
                  UploadOf("aadhaar", Options("aadhaar_card", FALSE, TRUE))]
  /\ reqPc = [r \in Requests |-> "none"]
  /\ processed = [r \in Requests |-> NoEntry]
  /\ response = [r \in Requests |-> NoResponse]
  /\ cache = [k \in CacheKeys |-> NoEntry]

VARIABLES
  attached,                 \* the documents the client attached to the batch
  batchPc,                  \* position in POST /validate-documents
  files,                    \* req.files, as multer left it
  settled,                  \* the current chunk: document index -> outcome
  results,                  \* the handler's results array
  batchResponse             \* the response sent

batchVars == <<attached, batchPc, files, settled, results, batchResponse>>

VARIABLES
  aiServices,               \* the module variable: NoServices or the instances
  initializationPromise,    \* the module variable: NoPromise or a promise
  promiseState,             \* per promise: unused, pending, fulfilled, rejected
  clientPc,                 \* per client: position around initializeAIServices
  awaited,                  \* per client: what its call returned
  outcome                   \* per client: what its await produced

initVars ==
  <<aiServices, initializationPromise, promiseState, clientPc, awaited,
    outcome>>

\* the requests that call initializeAIServices
Clients == {"c1", "c2", "c3"}

\* the initialisations that can be started
MaxInits == 3
Promises == 1..MaxInits

NoServices == 0
NoPromise == 0
NoOutcome == [kind |-> "none", services |-> NoServices]

InitIdle ==
  /\ aiServices = NoServices
  /\ initializationPromise = NoPromise
  /\ promiseState = [p \in Promises |-> "unused"]
  /\ clientPc = [c \in Clients |-> "idle"]
  /\ awaited = [c \in Clients |-> NoOutcome]
  /\ outcome = [c \in Clients |-> NoOutcome]

svcVars == <<batchVars, initVars>>

BatchIdle ==
  /\ attached = <<>>
  /\ batchPc = "none"
  /\ files = <<>>
  /\ settled = <<>>
  /\ results = <<>>
  /\ batchResponse = NoResponse

SvcIdle == BatchIdle /\ InitIdle

vars == <<pipeVars, scoreVars, unitVars, reqVars, svcVars>>

Inv == {"A", "B"}

MaxTime == 2
Times == 1..MaxTime

MaxSeeds == 21

SourcePaths ==
  {Path("doc", "jpg"), Path("doc", "PNG"), Path("doc", "webp"),
   Path("scan", "jpeg")}
Paths == SourcePaths \cup {elaOutputPath(p) : p \in SourcePaths} \cup {NoPath}

Gimp == <<"G", "I", "M", "P", " ", "2", ".", "1", "0">>

Image(grid, stats, blocks, noise, edge, exif) ==
  [diffGrid |-> grid, elaStats |-> stats, inconsistentBlocks |-> blocks,
   brightBlocks |-> 0, noiseVariance |-> noise, edgeRatio |-> edge, exif |-> exif]

Stats(max, variance) == [maxIntensity |-> max, variance |-> variance]

\* the statistics a difference image can have, given its block means: the
\* maximum pixel is at least the largest block mean
StatsFor(grid) ==
  IF GridMax(grid) = 0
    THEN {Stats(50, 1000), Stats(51, 1000), Stats(50, 1001), Stats(60, 1200)}
    ELSE {Stats(255, 1200)}

SeedCounts == 0..MaxSeeds

\* every combination of the analyzer signals, over the region counts
SweepImages ==
  UNION {{Image(StripGrid(k, 220), st, b, n, e, x) :
            st \in StatsFor(StripGrid(k, 220)),
            b \in {5, 6}, n \in {1000, 1001}, e \in {400, 401},
            x \in {NoExif, [DateTime |-> Absent, Software |-> Gimp]}} :
         k \in SeedCounts}

\* the EXIF cases, other signals quiet
ExifImages ==
  {Image(BlankGrid, Stats(50, 1000), 0, 0, 100,
         [DateTime |-> d, Software |-> sw]) :
     d \in {Absent, InvalidDate} \cup {DateAt(t) : t \in Times},
     sw \in {<<>>, Gimp, <<"C", "a", "n", "o", "n">>}}

QuietImage == Image(BlankGrid, Stats(50, 1000), 0, 0, 100,
                    [DateTime |-> DateAt(MaxTime), Software |-> <<>>])
BrightImage == Image(StripGrid(3, 220), Stats(255, 1200), 6, 1001, 401,
                     [DateTime |-> Absent, Software |-> Gimp])

Components == {"ela", "compression", "metadata", "noise", "edges", "detector"}

Outcomes(component) == IF component \in faulty THEN BOOLEAN ELSE {FALSE}

(***************************************************************************)
(* Initial states: one invocation over the input sweeps, one invocation    *)
(* with failing collaborators, or two concurrent invocations.              *)
(***************************************************************************)
InitCommon ==
  /\ pc = [i \in Inv |-> "idle"]
  /\ elaBuffer = [i \in Inv |-> NoFile]
  /\ elaAnalysis = [i \in Inv |-> Pending]
  /\ compressionAnalysis = [i \in Inv |-> Pending]
  /\ metadataAnalysis = [i \in Inv |-> Pending]
  /\ noiseAnalysis = [i \in Inv |-> Pending]
  /\ edgeAnalysis = [i \in Inv |-> Pending]
  /\ suspiciousAreas = [i \in Inv |-> <<>>]
  /\ result = [i \in Inv |-> NoResult]
  /\ sourceAtStart = [i \in Inv |-> NoFile]
  /\ detectorRead = [i \in Inv |-> NoFile]
  /\ detectorError = [i \in Inv |-> FALSE]

\* every signal raised, many regions
LoudImage == Image(StripGrid(MaxSeeds, 220), Stats(255, 1200), 6, 1001, 401,
                   [DateTime |-> DateAt(MaxTime), Software |-> Gimp])

Files(path, img) ==
  [p \in Paths |-> IF p = path THEN SourceFile(img) ELSE NoFile]

\* one invocation, reliable collaborators, over the signal sweep
InitSweep ==
  /\ callers = {"A"}
  /\ faulty = {}
  /\ \E img \in SweepImages :
       /\ fs = Files(Path("doc", "jpg"), img)
       /\ imagePath = [i \in Inv |-> Path("doc", "jpg")]
       /\ now = [i \in Inv |-> 1]

\* one invocation, reliable collaborators, over EXIF, clock and path
InitExif ==
  /\ callers = {"A"}
  /\ faulty = {}
  /\ \E img \in ExifImages :
     \E path \in SourcePaths :
     \E t \in Times :
       /\ fs = Files(path, img)
       /\ imagePath = [i \in Inv |-> path]
       /\ now = [i \in Inv |-> t]

\* one invocation, every collaborator may fail
InitFaulty ==
  /\ callers = {"A"}
  /\ faulty = Components
  /\ \E img \in {QuietImage, BrightImage, LoudImage} :
     \E path \in {Path("doc", "jpg"), Path("doc", "webp")} :
       /\ fs = Files(path, img)
       /\ imagePath = [i \in Inv |-> path]
       /\ now = [i \in Inv |-> 1]

PairPaths ==
  {<<Path("doc", "jpg"), Path("doc", "jpg")>>,
   <<Path("doc", "jpg"), Path("doc", "PNG")>>,
   <<Path("doc", "webp"), Path("doc", "webp")>>,
   <<Path("doc", "jpg"), Path("scan", "jpeg")>>}

InitPair ==
  /\ callers = Inv
  /\ faulty = {}
  /\ \E pp \in PairPaths :
     \E t \in Times :
       /\ fs = [p \in Paths |->
                  IF p = pp[1] THEN SourceFile(QuietImage)
                  ELSE IF p = pp[2] THEN SourceFile(BrightImage)
                  ELSE NoFile]
       /\ imagePath = [i \in Inv |-> IF i = "A" THEN pp[1] ELSE pp[2]]
       /\ now = [i \in Inv |-> IF i = "A" THEN 1 ELSE t]

(***************************************************************************)
(* analyzeImage, step by step (processor.js 201-253)                       *)
(***************************************************************************)
\* lines 201-218: the call; Promise.all starts the five analyzers
Start(i) ==
  /\ i \in callers
  /\ pc[i] = "idle"
  /\ pc' = [pc EXCEPT ![i] = "analyzers"]
  /\ elaAnalysis' = [elaAnalysis EXCEPT ![i] = Running]
  /\ compressionAnalysis' = [compressionAnalysis EXCEPT ![i] = Running]
  /\ metadataAnalysis' = [metadataAnalysis EXCEPT ![i] = Running]
  /\ noiseAnalysis' = [noiseAnalysis EXCEPT ![i] = Running]
  /\ edgeAnalysis' = [edgeAnalysis EXCEPT ![i] = Running]
  /\ sourceAtStart' = [sourceAtStart EXCEPT ![i] = fs[imagePath[i]]]
  /\ UNCHANGED <<scoreVars, unitVars, reqVars, svcVars, callers, faulty, fs, imagePath, now, elaBuffer,
                 suspiciousAreas, result, detectorRead, detectorError>>

\* performELA lines 257-270: re-encode twice and take the difference
PerformELADiff(i) ==
  /\ elaAnalysis[i].status = "running"
  /\ \E fails \in Outcomes("ela") :
       IF fails
         THEN /\ \E stage \in {"reencode", "difference"} :
                   elaAnalysis' = [elaAnalysis EXCEPT ![i] = ElaThrow(stage)]
              /\ UNCHANGED elaBuffer
         ELSE /\ elaBuffer' =
                   [elaBuffer EXCEPT ![i] = ElaFile(Seen(fs[imagePath[i]]), i)]
              /\ elaAnalysis' =
                   [elaAnalysis EXCEPT ![i] = [status |-> "diffed"]]
  /\ UNCHANGED <<scoreVars, unitVars, reqVars, svcVars, callers, faulty, fs, imagePath, now, pc,
                 compressionAnalysis, metadataAnalysis, noiseAnalysis,
                 edgeAnalysis, suspiciousAreas, result, sourceAtStart,
                 detectorRead, detectorError>>

\* performELA lines 272-282: write the difference image, take its statistics
PerformELAWrite(i) ==
  /\ elaAnalysis[i].status = "diffed"
  /\ LET outputPath == elaOutputPath(imagePath[i])
         written == [fs EXCEPT ![outputPath] = elaBuffer[i]]
     IN  \E fails \in Outcomes("ela") :
           IF fails
             THEN \/ /\ elaAnalysis' =
                          [elaAnalysis EXCEPT ![i] = ElaThrow("write")]
                     /\ UNCHANGED fs
                  \/ /\ elaAnalysis' =
                          [elaAnalysis EXCEPT ![i] = ElaThrow("statistics")]
                     /\ fs' = written
             ELSE /\ fs' = written
                  /\ elaAnalysis' =
                       [elaAnalysis EXCEPT
                          ![i] = ElaReturn(outputPath, elaBuffer[i])]
  /\ elaBuffer' = [elaBuffer EXCEPT ![i] = NoFile]
  /\ UNCHANGED <<scoreVars, unitVars, reqVars, svcVars, callers, faulty, imagePath, now, pc,
                 compressionAnalysis, metadataAnalysis, noiseAnalysis,
                 edgeAnalysis, suspiciousAreas, result, sourceAtStart,
                 detectorRead, detectorError>>

AnalyzeCompression(i) ==
  /\ compressionAnalysis[i].status = "running"
  /\ \E fails \in Outcomes("compression") :
       compressionAnalysis' =
         [compressionAnalysis EXCEPT
            ![i] = analyzeCompression(fs[imagePath[i]], fails)]
  /\ UNCHANGED <<scoreVars, unitVars, reqVars, svcVars, callers, faulty, fs, imagePath, now, pc, elaBuffer,
                 elaAnalysis, metadataAnalysis, noiseAnalysis, edgeAnalysis,
                 suspiciousAreas, result, sourceAtStart, detectorRead, detectorError>>

AnalyzeMetadata(i) ==
  /\ metadataAnalysis[i].status = "running"
  /\ \E fails \in Outcomes("metadata") :
       metadataAnalysis' =
         [metadataAnalysis EXCEPT
            ![i] = analyzeMetadata(fs[imagePath[i]], now[i], fails)]
  /\ UNCHANGED <<scoreVars, unitVars, reqVars, svcVars, callers, faulty, fs, imagePath, now, pc, elaBuffer,
                 elaAnalysis, compressionAnalysis, noiseAnalysis,
                 edgeAnalysis, suspiciousAreas, result, sourceAtStart,
                 detectorRead, detectorError>>

AnalyzeNoise(i) ==
  /\ noiseAnalysis[i].status = "running"
  /\ \E fails \in Outcomes("noise") :
       noiseAnalysis' =
         [noiseAnalysis EXCEPT ![i] = analyzeNoise(fs[imagePath[i]], fails)]
  /\ UNCHANGED <<scoreVars, unitVars, reqVars, svcVars, callers, faulty, fs, imagePath, now, pc, elaBuffer,
                 elaAnalysis, compressionAnalysis, metadataAnalysis,
                 edgeAnalysis, suspiciousAreas, result, sourceAtStart,
                 detectorRead, detectorError>>

AnalyzeEdges(i) ==
  /\ edgeAnalysis[i].status = "running"
  /\ \E fails \in Outcomes("edges") :
       edgeAnalysis' =
         [edgeAnalysis EXCEPT ![i] = analyzeEdges(fs[imagePath[i]], fails)]
  /\ UNCHANGED <<scoreVars, unitVars, reqVars, svcVars, callers, faulty, fs, imagePath, now, pc, elaBuffer,
                 elaAnalysis, compressionAnalysis, metadataAnalysis,
                 noiseAnalysis, suspiciousAreas, result, sourceAtStart,
                 detectorRead, detectorError>>

\* mutant: Promise.allSettled, which also resolves when performELA threw
AllSettledOrRejected(i) ==
  /\ elaAnalysis[i].status \in {"ok", "failed"}
  /\ compressionAnalysis[i].status = "returned"
  /\ metadataAnalysis[i].status = "returned"
  /\ noiseAnalysis[i].status = "returned"
  /\ edgeAnalysis[i].status = "returned"

\* mutant: only performELA is awaited before the detector is called
ElaSettled(i) == elaAnalysis[i].status = "ok"

\* Promise.all: all five have resolved
AllSettled(i) ==
  /\ elaAnalysis[i].status = "ok"
  /\ compressionAnalysis[i].status = "returned"
  /\ metadataAnalysis[i].status = "returned"
  /\ noiseAnalysis[i].status = "returned"
  /\ edgeAnalysis[i].status = "returned"

\* line 212 resolves, line 220 calls the detector
AwaitAll(i) ==
  /\ pc[i] = "analyzers"
  /\ AllSettled(i)
  /\ pc' = [pc EXCEPT ![i] = "detect"]
  /\ UNCHANGED <<scoreVars, unitVars, reqVars, svcVars, callers, faulty, fs, imagePath, now, elaBuffer, elaAnalysis,
                 compressionAnalysis, metadataAnalysis, noiseAnalysis,
                 edgeAnalysis, suspiciousAreas, result, sourceAtStart,
                 detectorRead, detectorError>>

\* line 212 rejects as soon as performELA has thrown; lines 249-252 rethrow
AnalyzeImageCatch(i) ==
  /\ pc[i] = "analyzers"
  /\ elaAnalysis[i].status = "failed"
  /\ pc' = [pc EXCEPT ![i] = "failed"]
  /\ UNCHANGED <<scoreVars, unitVars, reqVars, svcVars, callers, faulty, fs, imagePath, now, elaBuffer, elaAnalysis,
                 compressionAnalysis, metadataAnalysis, noiseAnalysis,
                 edgeAnalysis, suspiciousAreas, result, sourceAtStart,
                 detectorRead, detectorError>>

\* line 220 completes
DetectSuspiciousAreas(i) ==
  /\ pc[i] = "detect"
  /\ LET file == fs[elaAnalysis[i].elaImagePath]
     IN  /\ \E fails \in Outcomes("detector") :
              /\ suspiciousAreas' =
                   [suspiciousAreas EXCEPT
                      ![i] = detectSuspiciousAreas(elaAnalysis[i], file,
                                                   fails)]
              /\ detectorError' =
                   [detectorError EXCEPT
                      ![i] = detectorThrows(elaAnalysis[i], file, fails)]
         /\ detectorRead' = [detectorRead EXCEPT ![i] = file]
  /\ pc' = [pc EXCEPT ![i] = "aggregate"]
  /\ UNCHANGED <<scoreVars, unitVars, reqVars, svcVars, callers, faulty, fs, imagePath, now, elaBuffer, elaAnalysis,
                 compressionAnalysis, metadataAnalysis, noiseAnalysis,
                 edgeAnalysis, result, sourceAtStart>>

Analyses(i) ==
  [elaAnalysis |-> elaAnalysis[i],
   compressionAnalysis |-> compressionAnalysis[i],
   metadataAnalysis |-> metadataAnalysis[i],
   noiseAnalysis |-> noiseAnalysis[i],
   edgeAnalysis |-> edgeAnalysis[i],
   suspiciousAreas |-> suspiciousAreas[i]]

\* lines 221-248: score, verdict, report, return
Aggregate(i) ==
  /\ pc[i] = "aggregate"
  /\ result' = [result EXCEPT ![i] = BuildResult(Analyses(i))]
  /\ pc' = [pc EXCEPT ![i] = "done"]
  /\ UNCHANGED <<scoreVars, unitVars, reqVars, svcVars, callers, faulty, fs, imagePath, now, elaBuffer, elaAnalysis,
                 compressionAnalysis, metadataAnalysis, noiseAnalysis,
                 edgeAnalysis, suspiciousAreas, sourceAtStart, detectorRead, detectorError>>

(***************************************************************************)
(* calculateForgeryScore as a function: a pair of inputs, the second grown *)
(* from the first by raising flags and adding areas.                       *)
(***************************************************************************)

MaxAreaCount == 12

Flags == {"ela", "compression", "metadata", "noise", "edges"}

\* the fields of the analyzer results that calculateForgeryScore reads
AnalysesOf(flagged, n) ==
  [elaAnalysis |-> [hasAnomalies |-> "ela" \in flagged],
   compressionAnalysis |->
     [hasInconsistentCompression |-> "compression" \in flagged],
   metadataAnalysis |-> [hasInconsistentMetadata |-> "metadata" \in flagged],
   noiseAnalysis |-> [hasInconsistentNoise |-> "noise" \in flagged],
   edgeAnalysis |-> [hasInconsistentEdges |-> "edges" \in flagged],
   suspiciousAreas |-> [k \in 1..n |-> k]]

FlaggedIn(analyses) ==
  {f \in Flags :
     \/ f = "ela" /\ analyses.elaAnalysis.hasAnomalies
     \/ f = "compression"
          /\ analyses.compressionAnalysis.hasInconsistentCompression
     \/ f = "metadata" /\ analyses.metadataAnalysis.hasInconsistentMetadata
     \/ f = "noise" /\ analyses.noiseAnalysis.hasInconsistentNoise
     \/ f = "edges" /\ analyses.edgeAnalysis.hasInconsistentEdges}

ScoreIdle ==
  /\ analysesLo = AnalysesOf({}, 0)
  /\ analysesHi = AnalysesOf({}, 0)
  /\ scoreLo = 0
  /\ scoreHi = 0

PipeIdle ==
  /\ InitCommon
  /\ callers = {}
  /\ faulty = {}
  /\ fs = [p \in Paths |-> NoFile]
  /\ imagePath = [i \in Inv |-> Path("doc", "jpg")]
  /\ now = [i \in Inv |-> 1]

Init ==
  /\ InitCommon
  /\ InitSweep \/ InitExif \/ InitFaulty \/ InitPair
  /\ ScoreIdle
  /\ UnitIdle
  /\ ReqIdle
  /\ SvcIdle

Next ==
  \E i \in Inv :
    \/ Start(i)
    \/ PerformELADiff(i)
    \/ PerformELAWrite(i)
    \/ AnalyzeCompression(i)
    \/ AnalyzeMetadata(i)
    \/ AnalyzeNoise(i)
    \/ AnalyzeEdges(i)
    \/ AwaitAll(i)
    \/ AnalyzeImageCatch(i)
    \/ DetectSuspiciousAreas(i)
    \/ Aggregate(i)

Spec == Init /\ [][Next]_vars

InitScore ==
  /\ PipeIdle
  /\ UnitIdle
  /\ ReqIdle
  /\ SvcIdle
  /\ \E flagged \in SUBSET Flags :
     \E n \in 0..MaxAreaCount :
       /\ analysesLo = AnalysesOf(flagged, n)
       /\ analysesHi = AnalysesOf(flagged, n)
       /\ scoreLo = calculateForgeryScore(AnalysesOf(flagged, n))
       /\ scoreHi = calculateForgeryScore(AnalysesOf(flagged, n))

RaiseFlag(f) ==
  /\ f \notin FlaggedIn(analysesHi)
  /\ analysesHi' = AnalysesOf(FlaggedIn(analysesHi) \cup {f},
                              Len(analysesHi.suspiciousAreas))
  /\ scoreHi' = calculateForgeryScore(analysesHi')
  /\ UNCHANGED <<pipeVars, unitVars, reqVars, svcVars, analysesLo, scoreLo>>

AddArea ==
  /\ Len(analysesHi.suspiciousAreas) < MaxAreaCount
  /\ analysesHi' = AnalysesOf(FlaggedIn(analysesHi),
                              Len(analysesHi.suspiciousAreas) + 1)
  /\ scoreHi' = calculateForgeryScore(analysesHi')
  /\ UNCHANGED <<pipeVars, unitVars, reqVars, svcVars, analysesLo, scoreLo>>

NextScore ==
  \/ \E f \in Flags : RaiseFlag(f)
  \/ AddArea

SpecScore == InitScore /\ [][NextScore]_vars

(***************************************************************************)
(* The engine's functions one at a time: each action is one call, with its *)
(* arguments drawn from a bounded set; the state is the call and what it   *)
(* returned.                                                               *)
(***************************************************************************)
InitUnit ==
  /\ PipeIdle
  /\ ScoreIdle
  /\ UnitIdle
  /\ ReqIdle
  /\ SvcIdle

\* greyscale difference images of 3 x 2 blocks; the last column is 2, 4 or
\* 32 pixels wide, so that the centers of the first and the third block of
\* a row are 49, 50 or 64 pixels apart
MergeWidths == {2 * blockSize + 2, 2 * blockSize + 4, 3 * blockSize}
BlockLevels == {0, 190 * IntensityScale, 230 * IntensityScale}
MergeGrids ==
  {Grid(w, 2 * blockSize, mean) :
     w \in MergeWidths, mean \in [1..6 -> BlockLevels]}

\* one row of k separated flagged blocks of two levels: the brighter ones at
\* the odd places, at the even places, or only at the last place
Patterns == {"odd", "even", "last"}
MixedStrip(k, pattern) ==
  Grid((2 * k - 1) * blockSize, blockSize,
       [b \in 1..(2 * k - 1) |->
          IF b % 2 = 0 THEN 0
          ELSE LET place == (b + 1) \div 2
                   bright == \/ pattern = "odd" /\ place % 2 = 1
                             \/ pattern = "even" /\ place % 2 = 0
                             \/ pattern = "last" /\ place = k
               IN  (IF bright THEN 230 ELSE 190) * IntensityScale])
StripGrids == {MixedStrip(k, pattern) : k \in 1..MaxSeeds, pattern \in Patterns}

\* lines 726-747: the flagged blocks of a decoded image, then the merge
CallMergeSuspiciousAreas ==
  /\ call = NoCall
  /\ \E g \in MergeGrids \cup StripGrids :
       /\ call' = [fn |-> "mergeSuspiciousAreas", args |-> <<FlaggedBlocks(g)>>]
       /\ ret' = mergeSuspiciousAreas(FlaggedBlocks(g))
       /\ UNCHANGED <<pipeVars, scoreVars, reqVars, svcVars>>

\* block means: every half grey level from 0 to MaxLevel
MaxLevel == 255
HalfLevels == {k * (IntensityScale \div 2) : k \in 0..(2 * MaxLevel)}

\* lines 771-776
CallClassifySuspiciousArea ==
  /\ call = NoCall
  /\ \E intensity \in HalfLevels :
       /\ call' = [fn |-> "classifySuspiciousArea", args |-> <<intensity>>]
       /\ ret' = classifySuspiciousArea(intensity)
       /\ UNCHANGED <<pipeVars, scoreVars, reqVars, svcVars>>

\* the score 1.0, in thousandths
MaxScore == 1000

\* lines 889-917, for every score and every combination of flags, with
\* none or six suspicious areas
CallGenerateDetailedAnalysis ==
  /\ call = NoCall
  /\ \E forgeryScore \in 0..MaxScore, flagged \in SUBSET Flags, n \in {0, 6} :
       /\ call' = [fn |-> "generateDetailedAnalysis",
                   args |-> <<forgeryScore, AnalysesOf(flagged, n)>>]
       /\ ret' = generateDetailedAnalysis(forgeryScore, AnalysesOf(flagged, n))
       /\ UNCHANGED <<pipeVars, scoreVars, reqVars, svcVars>>

\* reports of 0..MaxBlocks inconsistent blocks over 0..MaxBlocks white blocks
CompressionImages ==
  {[Image(BlankGrid, Stats(0, 0), blocks, 0, 100, NoExif)
      EXCEPT !.brightBlocks = k] : blocks \in 0..MaxBlocks, k \in 0..MaxBlocks}

\* lines 357-382
CallAnalyzeCompression ==
  /\ call = NoCall
  /\ \E img \in CompressionImages, fails \in BOOLEAN :
       /\ call' = [fn |-> "analyzeCompression", args |-> <<img, fails>>]
       /\ ret' = analyzeCompression(SourceFile(img), fails)
       /\ UNCHANGED <<pipeVars, scoreVars, reqVars, svcVars>>

\* authoring-software strings
Photoshop ==
  <<"A", "d", "o", "b", "e", " ", "P", "h", "o", "t", "o", "s", "h", "o", "p">>
PaintNet == <<"P", "a", "i", "n", "t", ".", "N", "E", "T">>
Canon == <<"C", "a", "n", "o", "n">>
Gim == <<"G", "i", "m">>
SoftwareStrings == {<<>>, Gimp, Photoshop, PaintNet, Canon, Gim}
DateTimes == {Absent, InvalidDate} \cup {DateAt(t) : t \in Times}

\* lines 482-509, on the EXIF fields parseExifData found and at every
\* analysis time
CallAnalyzeMetadata ==
  /\ call = NoCall
  /\ \E d \in DateTimes, sw \in SoftwareStrings, t \in Times,
        fails \in BOOLEAN :
       LET exifData == [DateTime |-> d, Software |-> sw]
           img == Image(BlankGrid, Stats(0, 0), 0, 0, 100, exifData)
       IN  /\ call' = [fn |-> "analyzeMetadata",
                       args |-> <<exifData, t, fails>>]
           /\ ret' = analyzeMetadata(SourceFile(img), t, fails)
           /\ UNCHANGED <<pipeVars, scoreVars, reqVars, svcVars>>

\* generateNoiseMap (604-618): one entry per 16x16 block, row by row; only
\* the rectangle of an entry is kept
noiseBlockSize == 16

generateNoiseMap(info) ==
  LET bw == CeilDiv(info.width, noiseBlockSize)
      bh == CeilDiv(info.height, noiseBlockSize)
  IN  [k \in 1..(bw * bh) |->
         [x |-> ((k - 1) % bw) * noiseBlockSize,
          y |-> ((k - 1) \div bw) * noiseBlockSize,
          width |-> noiseBlockSize,
          height |-> noiseBlockSize]]

\* image extents of 1..MaxSide pixels each way
MaxSide == 34
Extents == {[width |-> w, height |-> h] : w \in 1..MaxSide, h \in 1..MaxSide}

\* lines 415-435
CallGenerateCompressionMap ==
  /\ call = NoCall
  /\ \E img \in CompressionImages :
       /\ call' = [fn |-> "generateCompressionMap",
                   args |-> <<[width |-> compressionSize,
                               height |-> compressionSize]>>]
       /\ ret' = generateCompressionMap(img)
       /\ UNCHANGED <<pipeVars, scoreVars, reqVars, svcVars>>

\* lines 604-618
CallGenerateNoiseMap ==
  /\ call = NoCall
  /\ \E info \in Extents :
       /\ call' = [fn |-> "generateNoiseMap", args |-> <<info>>]
       /\ ret' = generateNoiseMap(info)
       /\ UNCHANGED <<pipeVars, scoreVars, reqVars, svcVars>>

\* lines 726-745 on an image in which every block is flagged: the list
\* suspiciousAreas before the merge holds one rectangle per block
CallDetectBlocks ==
  /\ call = NoCall
  /\ \E info \in Extents :
       LET n == CeilDiv(info.width, blockSize) * CeilDiv(info.height, blockSize)
           g == Grid(info.width, info.height,
                     [k \in 1..n |-> 230 * IntensityScale])
       IN  /\ call' = [fn |-> "suspiciousAreas", args |-> <<info>>]
           /\ ret' = FlaggedBlocks(g)
           /\ UNCHANGED <<pipeVars, scoreVars, reqVars, svcVars>>

(***************************************************************************)
(* AIProcessor.processDocument (processor.js 9-65).  A text is described   *)
(* by its length and by the number of matches of the three error patterns; *)
(* qualities and component scores are in thousandths, the overall          *)
(* confidence in ten-thousandths (0.7 -> 7000).                            *)
(***************************************************************************)
MaxErrors == 12
Texts ==
  {[length |-> l, errorCount |-> e] :
     l \in {5, 100, 200}, e \in 0..MaxErrors}

\* lines 127-141: 0.2 for a short text, else max(0.2, 1 - errorRatio * 10)
assessOCRQuality(text) ==
  IF text.length < 10 THEN 200
  ELSE Max(200, 1000 - (10000 * text.errorCount) \div text.length)

\* lines 102-125
calculateConfidenceScore(text, formatValidation, forgeryAnalysis) ==
  LET ocrQuality == assessOCRQuality(text)
      formatScore == IF formatValidation.isValid THEN 1000 ELSE 300
      forgeryScore == IF forgeryAnalysis.isForgery THEN 100 ELSE 900
      score == ocrQuality * 4 + formatScore * 3 + forgeryScore * 3
  IN  [overall |-> Min(score, 10000),
       breakdown |-> [ocrQuality |-> ocrQuality,
                      formatValidation |-> formatScore,
                      forgeryDetection |-> forgeryScore]]

\* mutant: the risk is read from the confidence alone
calculateFraudRiskByConfidence(forgeryAnalysis, confidenceScore) ==
  IF confidenceScore.overall < 5000 THEN "high"
  ELSE IF confidenceScore.overall < 7000 THEN "medium"
  ELSE "low"

\* lines 143-150
calculateFraudRisk(forgeryAnalysis, confidenceScore) ==
  IF forgeryAnalysis.isForgery \/ confidenceScore.overall < 5000 THEN "high"
  ELSE IF confidenceScore.overall < 7000 THEN "medium"
  ELSE "low"

\* lines 12-64, from the collaborators' results on; "fails" is a step that
\* throws, which the catch block turns into one Error
processDocument(text, formatValidation, forgeryAnalysis, fails) ==
  IF fails \/ forgeryAnalysis.status # "returned"
    THEN [status |-> "thrown",
          message |-> "Failed to process document with AI"]
    ELSE LET confidenceScore ==
               calculateConfidenceScore(text, formatValidation, forgeryAnalysis)
         IN  [status |-> "returned",
              confidence |-> confidenceScore.overall,
              isValid |-> /\ confidenceScore.overall >= 7000
                          /\ ~forgeryAnalysis.isForgery,
              fraudRisk |-> calculateFraudRisk(forgeryAnalysis,
                                               confidenceScore),
              forgeryAnalysis |-> forgeryAnalysis,
              confidenceBreakdown |-> confidenceScore.breakdown]

\* the forgery analyses analyzeImage can return or fail with
ForgeryAnalyses ==
  {BuildResult(AnalysesOf(flagged, n)) :
     flagged \in SUBSET Flags, n \in 0..MaxAreaCount} \cup {NoResult}

CallProcessDocument ==
  /\ call = NoCall
  /\ \E text \in Texts, valid \in BOOLEAN,
        forgeryAnalysis \in ForgeryAnalyses, fails \in BOOLEAN :
       LET formatValidation == [isValid |-> valid]
       IN  /\ call' = [fn |-> "processDocument",
                       args |-> <<text, formatValidation, forgeryAnalysis,
                                  fails>>]
           /\ ret' = processDocument(text, formatValidation, forgeryAnalysis,
                                     fails)
           /\ UNCHANGED <<pipeVars, scoreVars, reqVars, svcVars>>

\* difference images of one row of three blocks: the first at any half
\* grey level, the second dark or just above the threshold, the third at
\* the threshold or just above
ThresholdLevels == {357 * (IntensityScale \div 2), 179 * IntensityScale}
LevelGrids ==
  {Grid(3 * blockSize, blockSize, <<l1, l2, l3>>) :
     l1 \in HalfLevels, l2 \in {0, 179 * IntensityScale},
     l3 \in ThresholdLevels}

\* lines 714-753: the ELA result with or without a path, the file at that
\* path, and whether decoding it fails
CallDetectSuspiciousAreas ==
  /\ call = NoCall
  /\ \E elaImagePath \in {NoPath, Path("doc_ela", "jpg")},
        file \in {NoFile}
                   \cup {ElaFile([DarkImage EXCEPT !.diffGrid = g], "A") :
                           g \in LevelGrids},
        fails \in BOOLEAN :
       LET ela == [status |-> "ok", elaImagePath |-> elaImagePath]
       IN  /\ call' = [fn |-> "detectSuspiciousAreas",
                       args |-> <<ela, file, fails>>]
           /\ ret' = detectSuspiciousAreas(ela, file, fails)
           /\ UNCHANGED <<pipeVars, scoreVars, reqVars, svcVars>>

NextUnit ==
  \/ CallMergeSuspiciousAreas
  \/ CallClassifySuspiciousArea
  \/ CallGenerateDetailedAnalysis
  \/ CallAnalyzeCompression
  \/ CallAnalyzeMetadata
  \/ CallGenerateCompressionMap
  \/ CallGenerateNoiseMap
  \/ CallDetectBlocks
  \/ CallDetectSuspiciousAreas
  \/ CallProcessDocument

SpecUnit == InitUnit /\ [][NextUnit]_vars

(***************************************************************************)
(* POST /validate-document (routes/validation.js 100-176): requests with   *)
(* an uploaded document, handled concurrently by one server with one       *)
(* cacheManager.  The external services (integrity and dimension checks,   *)
(* OCR, NER, forgery detection) succeed.                                   *)
(***************************************************************************)
\* what Math.random().toString(36).substr(2, 9) can return
Ids == {"id1", "id2", "id3"}

InitRequests ==
  /\ PipeIdle
  /\ ScoreIdle
  /\ UnitIdle
  /\ SvcIdle
  /\ uploaded \in [Requests -> Uploads]
  /\ reqPc = [r \in Requests |-> "received"]
  /\ processed = [r \in Requests |-> NoEntry]
  /\ response = [r \in Requests |-> NoResponse]
  /\ cache = [k \in CacheKeys |-> NoEntry]

\* lines 113-136: checks, hash, cache lookup; a hit is answered at once
CheckCache(r) ==
  /\ reqPc[r] = "received"
  /\ LET cachedResult == cache[CacheKey(uploaded[r])]
     IN  IF cachedResult # NoEntry
           THEN /\ response' = [response EXCEPT
                                  ![r] = [status |-> 200,
                                          id |-> cachedResult.id,
                                          cached |-> TRUE]]
                /\ reqPc' = [reqPc EXCEPT ![r] = "done"]
           ELSE /\ reqPc' = [reqPc EXCEPT ![r] = "processing"]
                /\ UNCHANGED response
  /\ UNCHANGED <<pipeVars, scoreVars, unitVars, svcVars, uploaded, processed, cache>>

\* lines 139-146: processDocument returns a result with id: generateId()
ProcessDocument(r) ==
  /\ reqPc[r] = "processing"
  /\ \E id \in Ids : processed' = [processed EXCEPT ![r] = [id |-> id]]
  /\ reqPc' = [reqPc EXCEPT ![r] = "processed"]
  /\ UNCHANGED <<pipeVars, scoreVars, unitVars, svcVars, uploaded, response, cache>>

\* lines 148-168: the result is cached, then sent
CacheAndRespond(r) ==
  /\ reqPc[r] = "processed"
  /\ cache' = [cache EXCEPT ![CacheKey(uploaded[r])] = processed[r]]
  /\ response' = [response EXCEPT
                    ![r] = [status |-> 200, id |-> processed[r].id,
                            cached |-> FALSE]]
  /\ reqPc' = [reqPc EXCEPT ![r] = "done"]
  /\ UNCHANGED <<pipeVars, scoreVars, unitVars, svcVars, uploaded, processed>>

NextRequests ==
  \E r \in Requests : CheckCache(r) \/ ProcessDocument(r) \/ CacheAndRespond(r)

SpecRequests == InitRequests /\ [][NextRequests]_vars

(***************************************************************************)
(* POST /validate-documents (routes/validation.js 208-276): one batch       *)
(* request, from the multer middleware to the response.  A document is      *)
(* described by its original name and by whether its MIME type is allowed.  *)
(***************************************************************************)
\* multer limits.files (line 39) and upload.array('documents', 5) (line 211)
filesLimit == 1
maxCount == 5
concurrencyLimit == 3

Document(name, allowed) == [originalname |-> name, allowed |-> allowed]

\* the batches a client can attach: up to maxCount + 1 documents
Batches ==
  UNION {[1..n -> {Document(name, allowed) :
                     name \in {"aadhaar.jpg"}, allowed \in BOOLEAN}] :
         n \in 0..(maxCount + 1)}

InitBatch ==
  /\ PipeIdle
  /\ ScoreIdle
  /\ UnitIdle
  /\ ReqIdle
  /\ attached \in Batches
  /\ batchPc = "received"
  /\ files = <<>>
  /\ settled = <<>>
  /\ results = <<>>
  /\ batchResponse = NoResponse
  /\ InitIdle

\* router error middleware, lines 353-376
RouterError(code) ==
  IF code = "LIMIT_FILE_COUNT"
    THEN [status |-> 400, code |-> "TOO_MANY_FILES"]
    ELSE [status |-> 500, code |-> "INTERNAL_ERROR"]

\* multer reads the parts in order: the file filter (lines 42-48) rejects a
\* type that is not allowed, limits.files stops the part after the
\* filesLimit-th file, upload.array stops the field after maxCount files
RECURSIVE Multer(_, _)
Multer(parts, accepted) ==
  IF parts = <<>> THEN [error |-> "", files |-> accepted]
  ELSE IF Len(accepted) >= filesLimit
    THEN [error |-> "LIMIT_FILE_COUNT", files |-> accepted]
  ELSE IF Len(accepted) >= maxCount
    THEN [error |-> "LIMIT_UNEXPECTED_FILE", files |-> accepted]
  ELSE IF ~Head(parts).allowed
    THEN [error |-> "Invalid file type", files |-> accepted]
  ELSE Multer(Tail(parts), Append(accepted, Head(parts)))

\* lines 208-223: the middleware, then the handler up to its first await
Upload ==
  /\ batchPc = "received"
  /\ LET parsed == Multer(attached, <<>>)
     IN  IF parsed.error # ""
           THEN /\ batchResponse' = RouterError(parsed.error)
                /\ batchPc' = "sent"
                /\ UNCHANGED files
           ELSE IF Len(parsed.files) = 0
             THEN /\ batchResponse' = [status |-> 400, code |-> "MISSING_FILES"]
                  /\ batchPc' = "sent"
                  /\ files' = parsed.files
             ELSE /\ batchPc' = "initializing"
                  /\ files' = parsed.files
                  /\ UNCHANGED batchResponse
  /\ UNCHANGED <<pipeVars, scoreVars, unitVars, reqVars, initVars, attached, settled,
                 results>>

\* the documents of the chunk that starts after "done" results
ChunkAfter(done) ==
  {i \in 1..Len(files) : done < i /\ i <= done + concurrencyLimit}

\* lines 225-236 and the catch at 268-275: initializeAIServices resolves or
\* rejects; a rejection is answered with 500
ServicesReady ==
  /\ batchPc = "initializing"
  /\ \E ok \in BOOLEAN :
       IF ok
         THEN /\ batchPc' = "chunk"
              /\ UNCHANGED batchResponse
         ELSE /\ batchPc' = "sent"
              /\ batchResponse' =
                   [status |-> 500, code |-> "BATCH_PROCESSING_ERROR"]
  /\ UNCHANGED <<pipeVars, scoreVars, unitVars, reqVars, initVars, attached, files,
                 settled, results>>

\* lines 239-248: the callback of chunk.map for one document; processDocument
\* returns a result or throws Error('Failed to process document with AI')
ProcessedEntry(file, throws) ==
  IF throws
    THEN [error |-> "Failed to process document with AI",
          filename |-> file.originalname]
    ELSE [filename |-> file.originalname, isValid |-> TRUE]

ProcessFile(i) ==
  /\ batchPc = "chunk"
  /\ i \in ChunkAfter(Len(results))
  /\ i \notin DOMAIN settled
  /\ \E throws \in BOOLEAN :
       settled' = [j \in DOMAIN settled \cup {i} |->
                     IF j = i
                       THEN [status |-> "fulfilled",
                             value |-> ProcessedEntry(files[i], throws)]
                       ELSE settled[j]]
  /\ UNCHANGED <<pipeVars, scoreVars, unitVars, reqVars, initVars, attached, batchPc,
                 files, results, batchResponse>>

\* r => r.error, r => !r.error (lines 262-263)
HasError(r) == "error" \in DOMAIN r /\ r.error # ""

Count(s, Test(_)) == Len(SelectSeq(s, Test))

\* lines 259-266
BatchSummary(all) ==
  [status |-> 200,
   results |-> all,
   summary |-> [total |-> Len(files),
                successful |-> Count(all, LAMBDA r : ~HasError(r)),
                failed |-> Count(all, HasError)]]

\* lines 237-266: Promise.allSettled of the chunk resolves, its values are
\* pushed in the order of the chunk; after the last chunk the response is sent
ChunkSettled ==
  /\ batchPc = "chunk"
  /\ ChunkAfter(Len(results)) \subseteq DOMAIN settled
  /\ LET chunk == ChunkAfter(Len(results))
         all == [i \in 1..(Len(results) + Cardinality(chunk)) |->
                   IF i <= Len(results) THEN results[i]
                   ELSE IF settled[i].status = "fulfilled"
                     THEN settled[i].value ELSE settled[i].reason]
     IN  /\ results' = all
         /\ settled' = <<>>
         /\ IF Len(all) = Len(files)
              THEN /\ batchResponse' = BatchSummary(all)
                   /\ batchPc' = "sent"
              ELSE UNCHANGED <<batchPc, batchResponse>>
  /\ UNCHANGED <<pipeVars, scoreVars, unitVars, reqVars, initVars, attached, files>>

NextBatch ==
  \/ Upload
  \/ ServicesReady
  \/ \E i \in 1..maxCount : ProcessFile(i)
  \/ ChunkSettled

SpecBatch == InitBatch /\ [][NextBatch]_vars

(***************************************************************************)
(* initializeAIServices (routes/validation.js 51-91), called by concurrent *)
(* request handlers on one event loop.  The instances built by the         *)
(* initialisation behind promise p are named p.                            *)
(***************************************************************************)
InitServices ==
  /\ PipeIdle
  /\ ScoreIdle
  /\ UnitIdle
  /\ ReqIdle
  /\ BatchIdle
  /\ InitIdle

\* mutant: the catch block leaves initializationPromise as it is
OnInitErrorKept(promise) == promise

\* line 85, in the catch block: initializationPromise = null
OnInitError(promise) == NoPromise

\* lines 55-90, up to the return: the cached instances, the promise of the
\* initialisation in progress, or a new initialisation, which runs up to
\* await ocrService.initialize() and leaves its promise in the variable
CallInitialize(c) ==
  /\ clientPc[c] = "idle"
  /\ IF aiServices # NoServices
       THEN /\ awaited' = [awaited EXCEPT
                             ![c] = [kind |-> "value", services |-> aiServices]]
            /\ UNCHANGED <<initializationPromise, promiseState>>
       ELSE IF initializationPromise # NoPromise
         THEN /\ awaited' = [awaited EXCEPT
                               ![c] = [kind |-> "promise",
                                       services |-> initializationPromise]]
              /\ UNCHANGED <<initializationPromise, promiseState>>
         ELSE \E p \in Promises :
                /\ promiseState[p] = "unused"
                /\ \A q \in Promises : q < p => promiseState[q] # "unused"
                /\ promiseState' = [promiseState EXCEPT ![p] = "pending"]
                /\ initializationPromise' = p
                /\ awaited' = [awaited EXCEPT
                                 ![c] = [kind |-> "promise", services |-> p]]
  /\ clientPc' = [clientPc EXCEPT ![c] = "awaiting"]
  /\ UNCHANGED <<pipeVars, scoreVars, unitVars, reqVars, batchVars,
                 aiServices, outcome>>

\* lines 64-81: ocrService.initialize() resolved; the services are built and
\* stored, the promise is fulfilled with them
InitializationSucceeds(p) ==
  /\ promiseState[p] = "pending"
  /\ aiServices' = p
  /\ promiseState' = [promiseState EXCEPT ![p] = "fulfilled"]
  /\ UNCHANGED <<pipeVars, scoreVars, unitVars, reqVars, batchVars,
                 initializationPromise, clientPc, awaited, outcome>>

\* lines 83-87: ocrService.initialize() rejected or a constructor threw
InitializationFails(p) ==
  /\ promiseState[p] = "pending"
  /\ initializationPromise' = OnInitError(initializationPromise)
  /\ promiseState' = [promiseState EXCEPT ![p] = "rejected"]
  /\ UNCHANGED <<pipeVars, scoreVars, unitVars, reqVars, batchVars,
                 aiServices, clientPc, awaited, outcome>>

\* the caller's await completes: with the instances it was handed, or with
\* the settlement of the promise it was handed
AwaitCompletes(c) ==
  /\ clientPc[c] = "awaiting"
  /\ \/ /\ awaited[c].kind = "value"
        /\ outcome' = [outcome EXCEPT ![c] = awaited[c]]
     \/ /\ awaited[c].kind = "promise"
        /\ promiseState[awaited[c].services] = "fulfilled"
        /\ outcome' = [outcome EXCEPT
                         ![c] = [kind |-> "value",
                                 services |-> awaited[c].services]]
     \/ /\ awaited[c].kind = "promise"
        /\ promiseState[awaited[c].services] = "rejected"
        /\ outcome' = [outcome EXCEPT
                         ![c] = [kind |-> "error",
                                 services |-> awaited[c].services]]
  /\ clientPc' = [clientPc EXCEPT ![c] = "done"]
  /\ UNCHANGED <<pipeVars, scoreVars, unitVars, reqVars, batchVars,
                 aiServices, initializationPromise, promiseState, awaited>>

\* the client sends its next request
NextRequest(c) ==
  /\ clientPc[c] = "done"
  /\ clientPc' = [clientPc EXCEPT ![c] = "idle"]
  /\ awaited' = [awaited EXCEPT ![c] = NoOutcome]
  /\ UNCHANGED <<pipeVars, scoreVars, unitVars, reqVars, batchVars,
                 aiServices, initializationPromise, promiseState, outcome>>

NextServices ==
  \/ \E c \in Clients : CallInitialize(c) \/ AwaitCompletes(c) \/ NextRequest(c)
  \/ \E p \in Promises : InitializationSucceeds(p) \/ InitializationFails(p)

SpecServices == InitServices /\ [][NextServices]_vars

(***************************************************************************)
(* Properties                                                              *)
(***************************************************************************)
Returned(i) == result[i].status = "returned"

\* the score (in thousandths) as the sum of the flagged contributions
Contribution(f) ==
  CASE f = "ela" -> 25 * 8
    [] f = "compression" -> 20 * 7
    [] f = "metadata" -> 15 * 6
    [] f = "noise" -> 20 * 5
    [] f = "edges" -> 10 * 4

RECURSIVE SumOver(_)
SumOver(S) ==
  IF S = {} THEN 0
  ELSE LET f == CHOOSE x \in S : TRUE
       IN  Contribution(f) + SumOver(S \ {f})

ExpectedScore(flagged, n) ==
  LET total == SumOver(flagged) + 10 * (IF n >= 10 THEN 10 ELSE n)
  IN  IF total > 1000 THEN 1000 ELSE total

\* C1: every returned ForgeryAnalysis has forgeryScore in [0,1] and
\* isForgery true exactly when forgeryScore > 0.6
C1_ScoreInRangeAndVerdict ==
  \A i \in Inv :
    Returned(i) =>
      /\ result[i].forgeryScore >= 0
      /\ result[i].forgeryScore <= 1000
      /\ result[i].isForgery <=> result[i].forgeryScore > 600

C1_Witness ==
  \E i \in Inv :
    /\ Returned(i)
    /\ result[i].isForgery
    /\ Len(result[i].suspiciousAreas) = 4

\* C2: calculateForgeryScore returns the clamped sum of the flagged
\* contributions plus 0.10 * min(n / 10, 1); all five flags with n = 10 give
\* 0.67, a forgery, MEDIUM RISK; ELA + compression with n = 12 give 0.44, no
\* forgery
C2_ScoreFormula ==
  /\ scoreLo = ExpectedScore(FlaggedIn(analysesLo),
                             Len(analysesLo.suspiciousAreas))
  /\ scoreHi = ExpectedScore(FlaggedIn(analysesHi),
                             Len(analysesHi.suspiciousAreas))
  /\ (FlaggedIn(analysesHi) = Flags /\ Len(analysesHi.suspiciousAreas) = 10)
       => /\ scoreHi = 670
          /\ isForgeryOf(scoreHi)
          /\ generateDetailedAnalysis(scoreHi, analysesHi).tier = "MEDIUM RISK"
  /\ (FlaggedIn(analysesHi) = {"ela", "compression"}
      /\ Len(analysesHi.suspiciousAreas) = 12)
       => /\ scoreHi = 440
          /\ ~isForgeryOf(scoreHi)

C2_Witness ==
  /\ FlaggedIn(analysesLo) = {"ela", "compression"}
  /\ Len(analysesLo.suspiciousAreas) = 12
  /\ FlaggedIn(analysesHi) = Flags
  /\ scoreHi = 670

\* C3: once the ELA step has failed, the invocation never reaches the
\* detector or the aggregator and returns no ForgeryAnalysis; the only
\* position it moves to is the thrown error
C3_ElaFailureIsFatal ==
  \A i \in Inv :
    /\ "stage" \in DOMAIN elaAnalysis[i] =>
         /\ pc[i] \in {"analyzers", "failed"}
         /\ ~Returned(i)
         /\ detectorRead[i] = NoFile
         /\ suspiciousAreas[i] = <<>>
    /\ pc[i] = "failed" => "stage" \in DOMAIN elaAnalysis[i]

C3_Witness ==
  \E i \in Inv :
    /\ pc[i] = "failed"
    /\ elaAnalysis[i].stage = "statistics"
    /\ compressionAnalysis[i].status = "returned"
    /\ compressionAnalysis[i].hasInconsistentCompression
    /\ metadataAnalysis[i].status = "returned"
    /\ noiseAnalysis[i].status = "returned"
    /\ noiseAnalysis[i].error
    /\ edgeAnalysis[i].status = "returned"

Errored(r) == r.status = "returned" /\ r.error

\* the analyzers whose returned flag is true
FlaggedBy(i) ==
  {f \in Flags :
     \/ f = "ela" /\ elaAnalysis[i].hasAnomalies
     \/ f = "compression" /\ compressionAnalysis[i].hasInconsistentCompression
     \/ f = "metadata" /\ metadataAnalysis[i].hasInconsistentMetadata
     \/ f = "noise" /\ noiseAnalysis[i].hasInconsistentNoise
     \/ f = "edges" /\ edgeAnalysis[i].hasInconsistentEdges}

ErroredIn(i) ==
  {f \in Flags :
     \/ f = "compression" /\ Errored(compressionAnalysis[i])
     \/ f = "metadata" /\ Errored(metadataAnalysis[i])
     \/ f = "noise" /\ Errored(noiseAnalysis[i])
     \/ f = "edges" /\ Errored(edgeAnalysis[i])}

Settles(r) == r.status \in {"pending", "running", "returned"}

\* C4: a Compression, Metadata, Noise or Edge analyzer never throws: when it
\* fails it returns a result with the error and a false flag; the pipeline
\* fails only when ELA failed; and the returned ForgeryAnalysis counts
\* nothing for a failed analyzer
C4_OtherFailuresDegrade ==
  \A i \in Inv :
    /\ Settles(compressionAnalysis[i]) /\ Settles(metadataAnalysis[i])
    /\ Settles(noiseAnalysis[i]) /\ Settles(edgeAnalysis[i])
    /\ Errored(compressionAnalysis[i]) =>
         ~compressionAnalysis[i].hasInconsistentCompression
    /\ Errored(metadataAnalysis[i]) =>
         ~metadataAnalysis[i].hasInconsistentMetadata
    /\ Errored(noiseAnalysis[i]) => ~noiseAnalysis[i].hasInconsistentNoise
    /\ Errored(edgeAnalysis[i]) => ~edgeAnalysis[i].hasInconsistentEdges
    /\ pc[i] = "failed" => elaAnalysis[i].status = "failed"
    /\ pc[i] = "done" =>
         /\ Returned(i)
         /\ result[i].forgeryScore =
              ExpectedScore(FlaggedBy(i) \ ErroredIn(i),
                            Len(result[i].suspiciousAreas))

\* all four fail on an image that would raise each of their flags
C4_Witness ==
  \E i \in Inv :
    /\ pc[i] = "done"
    /\ Returned(i)
    /\ ErroredIn(i) = {"compression", "metadata", "noise", "edges"}
    /\ sourceAtStart[i] = SourceFile(LoudImage)
    /\ result[i].forgeryScore = 300

\* all five analyzers of the invocation have completed
FiveCompleted(i) ==
  /\ elaAnalysis[i].status = "ok"
  /\ \A r \in {compressionAnalysis[i], metadataAnalysis[i],
               noiseAnalysis[i], edgeAnalysis[i]} : r.status = "returned"

\* C5: the detector runs only when all five analyzers have completed, in
\* particular ELA; the aggregator only when the detector has completed too
C5_JoinBeforeDetectorAndAggregator ==
  \A i \in Inv :
    /\ pc[i] \in {"detect", "aggregate", "done"} => FiveCompleted(i)
    /\ detectorRead[i] # NoFile =>
         /\ elaAnalysis[i].status = "ok"
         /\ FiveCompleted(i)
    /\ Returned(i) =>
         /\ FiveCompleted(i)
         /\ detectorRead[i] # NoFile
         /\ pc[i] = "done"

\* ELA is the last of the five to complete, and the run completes
C5_Witness ==
  \E i \in Inv :
    /\ Returned(i)
    /\ detectorRead[i].by = i
    /\ \E j \in Inv \ {i} :
         /\ elaAnalysis[j].status = "ok"
         /\ noiseAnalysis[j].status = "running"
         /\ pc[j] = "analyzers"

\* C6: the source image is unchanged from the start of analyzeImage on
C6_SourceUnchanged ==
  \A i \in Inv :
    pc[i] # "idle" => fs[imagePath[i]] = sourceAtStart[i]

\* C7: the detector of an invocation decodes only the difference image
\* that the same invocation's ELA step wrote
C7_DetectorReadsOwnEla ==
  \A i \in Inv :
    detectorRead[i] # NoFile => detectorRead[i].by = i

\* C8: two completed runs on the identical, unchanged image return the
\* identical forgeryScore, whatever their analysis times
C8_SameImageSameScore ==
  \A i \in Inv : \A j \in Inv :
    (/\ Returned(i) /\ Returned(j)
     /\ imagePath[i] = imagePath[j]
     /\ sourceAtStart[i] = sourceAtStart[j]
     /\ fs[imagePath[i]] = sourceAtStart[i]
     /\ detectorRead[i].img = detectorRead[j].img
     /\ ErroredIn(i) = {} /\ ErroredIn(j) = {})
      => result[i].forgeryScore = result[j].forgeryScore

\* C9: calculateForgeryScore is monotone: when every flag of the first
\* input is set in the second and the area count is not smaller, the second
\* score is not smaller
C9_ScoreMonotone ==
  (/\ FlaggedIn(analysesLo) \subseteq FlaggedIn(analysesHi)
   /\ Len(analysesLo.suspiciousAreas) <= Len(analysesHi.suspiciousAreas))
    => scoreLo <= scoreHi

C9_Witness ==
  /\ FlaggedIn(analysesLo) = {"ela"}
  /\ FlaggedIn(analysesHi) = {"ela", "edges", "noise"}
  /\ Len(analysesLo.suspiciousAreas) = 2
  /\ Len(analysesHi.suspiciousAreas) = 11
  /\ scoreLo < scoreHi

\* C10: the sequence the detector returns, and the one carried in the
\* ForgeryAnalysis, never has more than 20 elements
C10_AtMostTwentyAreas ==
  \A i \in Inv :
    /\ Len(suspiciousAreas[i]) <= 20
    /\ Returned(i) => Len(result[i].suspiciousAreas) <= 20

\* more than 20 regions were found and 20 are returned
C10_Witness ==
  \E i \in Inv :
    /\ Returned(i)
    /\ Len(MergeLoop(FlaggedBlocks(GreyBlocks(detectorRead[i])), 1, {})) > 20
    /\ Len(result[i].suspiciousAreas) = 20

\* four times the squared distance between the centers of two areas
Dist2(a, b) ==
  LET dx == (2 * a.x + a.width) - (2 * b.x + b.width)
      dy == (2 * a.y + a.height) - (2 * b.y + b.height)
  IN  dx * dx + dy * dy

Near50(a, b) == Dist2(a, b) < 4 * 50 * 50

\* the seed blocks among the first k: those not near an earlier seed
RECURSIVE SeedsUpTo(_, _)
SeedsUpTo(areas, k) ==
  IF k = 0 THEN {}
  ELSE LET S == SeedsUpTo(areas, k - 1)
       IN  IF \E i \in S : Near50(areas[i], areas[k]) THEN S ELSE S \cup {k}

\* the first seed a block is near
SeedOf(areas, j) ==
  LET near == {i \in SeedsUpTo(areas, Len(areas)) : Near50(areas[i], areas[j])}
  IN  CHOOSE i \in near : \A i2 \in near : i <= i2

\* the k-th seed in detection order
SeedAt(seeds, k) ==
  CHOOSE s \in seeds : Cardinality({t \in seeds : t <= s}) = k

Members(areas, s) == {j \in 1..Len(areas) : SeedOf(areas, j) = s}

RECURSIVE FieldSum(_, _, _)
FieldSum(areas, S, field) ==
  IF S = {} THEN 0
  ELSE LET j == CHOOSE x \in S : TRUE
       IN  areas[j][field] + FieldSum(areas, S \ {j}, field)

\* out is the union box, the averages and the reclassified type of group m
IsMergeOf(out, areas, m) ==
  LET n == Cardinality(m)
  IN  /\ \A j \in m : /\ out.x <= areas[j].x
                      /\ out.y <= areas[j].y
                      /\ out.x + out.width >= areas[j].x + areas[j].width
                      /\ out.y + out.height >= areas[j].y + areas[j].height
      /\ \E j \in m : out.x = areas[j].x
      /\ \E j \in m : out.y = areas[j].y
      /\ \E j \in m : out.x + out.width = areas[j].x + areas[j].width
      /\ \E j \in m : out.y + out.height = areas[j].y + areas[j].height
      /\ n * out.confidence = FieldSum(areas, m, "confidence")
      /\ n * out.intensity = FieldSum(areas, m, "intensity")
      /\ out.mergedCount = n
      /\ out.type = (IF out.intensity > 200 * IntensityScale
                       THEN "high_manipulation"
                     ELSE IF out.intensity > 150 * IntensityScale
                       THEN "medium_manipulation"
                     ELSE IF out.intensity > 100 * IntensityScale
                       THEN "low_manipulation"
                     ELSE "noise")

\* C11: mergeSuspiciousAreas returns one entry per seed block, in seed
\* order; the entry of a seed with no other block at distance < 50 is the
\* block itself, the entry of a larger group is the union box, the averaged
\* confidence and intensity, the group size as mergedCount and the type of
\* the averaged intensity; two flagged blocks alone are merged at distance
\* < 50 and stay separate at distance > 50
C11_MergeBySeedDistance ==
  call.fn = "mergeSuspiciousAreas" =>
    LET areas == call.args[1]
        seeds == SeedsUpTo(areas, Len(areas))
    IN  /\ Cardinality(seeds) <= 20 => Len(ret) = Cardinality(seeds)
        /\ Len(ret) <= Cardinality(seeds)
        /\ \A k \in 1..Len(ret) :
             LET s == SeedAt(seeds, k)
                 m == Members(areas, s)
             IN  IF Cardinality(m) = 1 THEN ret[k] = areas[s]
                 ELSE IsMergeOf(ret[k], areas, m)
        /\ Len(areas) = 2 =>
             /\ Dist2(areas[1], areas[2]) > 4 * 50 * 50 => ret = areas
             /\ Dist2(areas[1], areas[2]) < 4 * 50 * 50 =>
                  /\ Len(ret) = 1
                  /\ ret[1].mergedCount = 2

\* a group of three with mixed intensities next to a block that stays alone
C11_Witness ==
  /\ call.fn = "mergeSuspiciousAreas"
  /\ Len(call.args[1]) = 4
  /\ Len(ret) = 2
  /\ ret[1].mergedCount = 3
  /\ ret[1].type = "high_manipulation"
  /\ 3 * ret[1].intensity = (230 + 230 + 190) * IntensityScale
  /\ ret[2] = call.args[1][4]

\* C12: every area the detector returns carries a mergedCount of at least
\* 1, which is greater than 1 exactly for the groups of more than one block
C12_MergedCountAtLeastOne ==
  call.fn = "mergeSuspiciousAreas" =>
    LET areas == call.args[1]
        seeds == SeedsUpTo(areas, Len(areas))
    IN  \A k \in 1..Len(ret) :
          LET out == ret[k]
              s == SeedAt(seeds, k)
          IN  /\ "mergedCount" \in DOMAIN out
              /\ out.mergedCount >= 1
              /\ out.mergedCount > 1 <=> Cardinality(Members(areas, s)) > 1

\* the type the spec gives an intensity, in grey levels
TypeAt(level, type) ==
  (call.fn = "classifySuspiciousArea"
   /\ call.args[1] = level * IntensityScale) => ret = type

\* C13: classifySuspiciousArea has strict thresholds at 200, 150 and 100:
\* 201 is high, 200 and 151 are medium, 150 and 101 are low, 100 is noise
C13_ClassifyStrictThresholds ==
  /\ call.fn = "classifySuspiciousArea" =>
       LET intensity == call.args[1]
       IN  /\ ret = "high_manipulation" <=> intensity > 200 * IntensityScale
           /\ ret = "medium_manipulation" <=>
                (intensity > 150 * IntensityScale
                 /\ intensity <= 200 * IntensityScale)
           /\ ret = "low_manipulation" <=>
                (intensity > 100 * IntensityScale
                 /\ intensity <= 150 * IntensityScale)
           /\ ret = "noise" <=> intensity <= 100 * IntensityScale
  /\ TypeAt(201, "high_manipulation")
  /\ TypeAt(200, "medium_manipulation")
  /\ TypeAt(151, "medium_manipulation")
  /\ TypeAt(150, "low_manipulation")
  /\ TypeAt(101, "low_manipulation")
  /\ TypeAt(100, "noise")

C13_Witness ==
  /\ call.fn = "classifySuspiciousArea"
  /\ call.args[1] = 150 * IntensityScale
  /\ ret = "low_manipulation"

\* the tier the spec gives a score, in thousandths
TierAt(score, tier) ==
  (call.fn = "generateDetailedAnalysis" /\ call.args[1] = score)
    => ret.tier = tier

\* C14: the tier depends on the score alone, with strict lower boundaries
\* at 0.8, 0.6 and 0.3; ELA flagged alone with no area scores 0.20, is no
\* forgery and reads "appears authentic"
C14_TierByScoreAlone ==
  /\ call.fn = "generateDetailedAnalysis" =>
       LET score == call.args[1]
       IN  /\ ret.tier = "HIGH RISK" <=> score > 800
           /\ ret.tier = "MEDIUM RISK" <=> (score > 600 /\ score <= 800)
           /\ ret.tier = "LOW RISK" <=> (score > 300 /\ score <= 600)
           /\ ret.tier = "appears authentic" <=> score <= 300
  /\ TierAt(801, "HIGH RISK")
  /\ TierAt(800, "MEDIUM RISK")
  /\ TierAt(600, "LOW RISK")
  /\ TierAt(301, "LOW RISK")
  /\ TierAt(300, "appears authentic")
  /\ (call.fn = "generateDetailedAnalysis"
      /\ call.args[2] = AnalysesOf({"ela"}, 0)
      /\ call.args[1] = calculateForgeryScore(call.args[2]))
       => /\ call.args[1] = 200
          /\ ~isForgeryOf(call.args[1])
          /\ ret.tier = "appears authentic"

\* the score 0.8 with every flag raised is still MEDIUM RISK
C14_Witness ==
  /\ call.fn = "generateDetailedAnalysis"
  /\ call.args[1] = 800
  /\ call.args[2] = AnalysesOf(Flags, 6)
  /\ ret.tier = "MEDIUM RISK"

\* the flagged blocks are in row-major order of their position
RowMajor(areas) ==
  \A i \in 1..Len(areas) : \A j \in 1..Len(areas) :
    i < j => \/ areas[i].y < areas[j].y
             \/ areas[i].y = areas[j].y /\ areas[i].x < areas[j].x

\* C15: the returned areas are the first 20 groups (all, if fewer) in the
\* order of their seed blocks, which is the row-major detection order; the
\* k-th returned area is the group of the k-th seed whatever its severity
C15_FirstTwentyInSeedOrder ==
  call.fn = "mergeSuspiciousAreas" =>
    LET areas == call.args[1]
        seeds == SeedsUpTo(areas, Len(areas))
    IN  /\ RowMajor(areas)
        /\ Len(ret) = Min(20, Cardinality(seeds))
        /\ \A k \in 1..Len(ret) :
             LET s == SeedAt(seeds, k)
             IN  /\ ret[k].x <= areas[s].x
                 /\ ret[k].y <= areas[s].y
                 /\ ret[k].x + ret[k].width >= areas[s].x + areas[s].width
                 /\ ret[k].y + ret[k].height >= areas[s].y + areas[s].height
                 /\ Cardinality(Members(areas, s)) = 1 => ret[k] = areas[s]

\* 21 separate blocks, the last one the only bright one: it is cut off,
\* and 20 weaker areas are returned
C15_Witness ==
  /\ call.fn = "mergeSuspiciousAreas"
  /\ Len(call.args[1]) = 21
  /\ call.args[1][21].type = "high_manipulation"
  /\ Len(ret) = 20
  /\ \A k \in 1..20 : ret[k].type = "medium_manipulation"

\* C16: when the compression analyzer succeeds, hasInconsistentCompression
\* is true exactly when more than 5 blocks of the compression map deviate
\* from the mean by more than 2 standard deviations, i.e. exactly when the
\* overall suspicion is "high"
C16_FlagIffMoreThanFiveSuspiciousBlocks ==
  (call.fn = "analyzeCompression" /\ ~ret.error) =>
    /\ ret.hasInconsistentCompression <=> ret.analysis.suspiciousBlockCount > 5
    /\ ret.hasInconsistentCompression <=> ret.analysis.overallSuspicion = "high"

\* the strings of SoftwareStrings that name an editing tool
NamesEditingTool(sw) == sw \in {Gimp, Photoshop, PaintNet}

GridCalls == {"generateCompressionMap", "generateNoiseMap",
              "suspiciousAreas"}

\* the entries of a block list whose rectangle holds the pixel (px, py)
Holding(blocks, px, py) ==
  {k \in 1..Len(blocks) :
     /\ blocks[k].x <= px /\ px < blocks[k].x + blocks[k].width
     /\ blocks[k].y <= py /\ py < blocks[k].y + blocks[k].height}

\* every pixel of the image lies in exactly one recorded block
CoversOnce(blocks, info) ==
  \A px \in 0..(info.width - 1) : \A py \in 0..(info.height - 1) :
    Cardinality(Holding(blocks, px, py)) = 1

\* no recorded block reaches beyond the image
WithinExtent(blocks, info) ==
  \A k \in 1..Len(blocks) :
    /\ blocks[k].x + blocks[k].width <= info.width
    /\ blocks[k].y + blocks[k].height <= info.height

\* C18: the 8x8, 16x16 and 32x32 block grids each cover every pixel of the
\* image exactly once, and no recorded block rectangle extends beyond the
\* image: the last row and column are truncated
C18_BlockGridsCoverAndFit ==
  call.fn \in GridCalls =>
    /\ CoversOnce(ret, call.args[1])
    /\ WithinExtent(ret, call.args[1])

\* the findings of generateDetailedAnalysis that name an analyzer; no
\* finding names the noise or the edge analyzer
FindingsOf(f) ==
  CASE f = "ela" ->
         {"Error Level Analysis detected potential tampering areas"}
    [] f = "compression" -> {"Inconsistent JPEG compression patterns found"}
    [] f = "metadata" -> {"Metadata inconsistencies detected"}
    [] OTHER -> {}

\* C19: the report of a run names the finding of every analyzer whose
\* flag is true in that run
C19_ReportNamesFiredAnalyzers ==
  \A i \in Inv :
    Returned(i) =>
      \A f \in FlaggedBy(i) :
        \E k \in 1..Len(result[i].analysis.findings) :
          result[i].analysis.findings[k] \in FindingsOf(f)

\* C20: every request is answered with status 200, and no two responses
\* carry the same id
C20_AllSucceedWithDistinctIds ==
  \A r \in Requests :
    reqPc[r] = "done" =>
      /\ response[r].status = 200
      /\ \A q \in Requests \ {r} :
           reqPc[q] = "done" => response[q].id # response[r].id

\* C21: a batch of 1..5 acceptable documents whose services initialise is
\* answered 200 with one result per uploaded document and a summary with
\* total = number of documents and successful + failed = total
C21_OneResultPerDocument ==
  (/\ batchPc = "sent"
   /\ Len(attached) \in 1..maxCount
   /\ \A i \in 1..Len(attached) : attached[i].allowed
   /\ batchResponse.status # 500)
  => /\ batchResponse.status = 200
     /\ Len(batchResponse.results) = Len(attached)
     /\ batchResponse.summary.total = Len(attached)
     /\ batchResponse.summary.successful + batchResponse.summary.failed
          = batchResponse.summary.total

\* the number of blocks an entry stands for: a block pushed unchanged is one
GroupSize(out) == IF "mergedCount" \in DOMAIN out THEN out.mergedCount ELSE 1

RECURSIVE SizeSum(_)
SizeSum(entries) ==
  IF entries = <<>> THEN 0
  ELSE GroupSize(Head(entries)) + SizeSum(Tail(entries))

\* C22: the merge is seed-based and first-seed-wins: every block that is
\* not yet grouped opens a group and absorbs exactly the later blocks, not
\* yet grouped, within the threshold of the seed's center, whatever their
\* distance to other members; every flagged block is in exactly one group
\* and, when the cap does not cut, the group sizes sum to the number of
\* flagged blocks
C22_SeedBasedFirstSeedWins ==
  call.fn = "mergeSuspiciousAreas" =>
    LET areas == call.args[1]
        seeds == SeedsUpTo(areas, Len(areas))
        seedOf == [j \in 1..Len(areas) |-> SeedOf(areas, j)]
    IN  /\ \A k \in 1..Len(ret) :
             LET s == SeedAt(seeds, k)
                 absorbed == {j \in 1..Len(areas) :
                                /\ j > s
                                /\ seedOf[j] >= s
                                /\ Near50(areas[s], areas[j])}
             IN  /\ seedOf[s] = s
                 /\ GroupSize(ret[k]) = 1 + Cardinality(absorbed)
                 /\ ret[k].x <= areas[s].x /\ ret[k].y <= areas[s].y
                 /\ \A j \in absorbed :
                      /\ ret[k].x <= areas[j].x
                      /\ ret[k].y <= areas[j].y
                      /\ ret[k].x + ret[k].width >= areas[j].x + areas[j].width
                      /\ ret[k].y + ret[k].height
                           >= areas[j].y + areas[j].height
        /\ \A j \in 1..Len(areas) :
             Cardinality({s \in seeds : seedOf[j] = s}) = 1
        /\ Cardinality(seeds) <= maxAreas => SizeSum(ret) = Len(areas)

\* a later block within the threshold of a member of the first group, but
\* not of its seed, stays out of that group
C22_Witness ==
  /\ call.fn = "mergeSuspiciousAreas"
  /\ Len(ret) = 2
  /\ LET areas == call.args[1]
     IN  /\ Len(areas) = 6
         /\ \E m, j \in 1..Len(areas) :
              /\ m \in Members(areas, 1) /\ j \notin Members(areas, 1)
              /\ m < j
              /\ Near50(areas[m], areas[j])
              /\ ~Near50(areas[1], areas[j])
         /\ GroupSize(ret[1]) + GroupSize(ret[2]) = 6

\* the entries of a result that start at pixel column x
EntriesAt(entries, x) == {k \in 1..Len(entries) : entries[k].x = x}

\* C23: a block of the difference image is flagged exactly when its mean
\* intensity is strictly greater than T * 255 = 178.5; a block whose mean
\* is 178.5 is not flagged; a flagged block gets confidence =
\* min(intensity / 255, 1), which lies in [0, 1]
C23_FlaggedStrictlyAboveThreshold ==
  (/\ call.fn = "detectSuspiciousAreas"
   /\ call.args[1].elaImagePath # NoPath
   /\ call.args[2].kind = "ela"
   /\ ~call.args[3]
   /\ GreyBlocks(call.args[2]).mean[2] = 0)
  => LET g == GreyBlocks(call.args[2])
     IN  \A b \in {1, 3} :
           LET mean == g.mean[b]
               found == EntriesAt(ret, (b - 1) * blockSize)
           IN  /\ 2 * mean > 357 * IntensityScale <=> found # {}
               /\ 2 * mean = 357 * IntensityScale => found = {}
               /\ \A k \in found :
                    /\ ret[k].intensity = mean
                    /\ ret[k].confidence
                         = (IF mean > 255 * IntensityScale
                              THEN 255 * IntensityScale ELSE mean)
                    /\ ret[k].confidence >= 0
                    /\ ret[k].confidence <= 255 * IntensityScale

\* one block at 178.5 left out next to one at 179 that is flagged with
\* confidence 179/255
C23_Witness ==
  /\ call.fn = "detectSuspiciousAreas"
  /\ call.args[1].elaImagePath # NoPath
  /\ call.args[2].kind = "ela"
  /\ ~call.args[3]
  /\ 2 * GreyBlocks(call.args[2]).mean[1] = 357 * IntensityScale
  /\ GreyBlocks(call.args[2]).mean[2] = 0
  /\ GreyBlocks(call.args[2]).mean[3] = 179 * IntensityScale
  /\ Len(ret) = 1
  /\ ret[1].x = 2 * blockSize
  /\ ret[1].confidence = 179 * IntensityScale

\* C24: the detector never fails the pipeline: when the ELA result has no
\* path or the detector's reading of the difference image fails, it returns
\* the empty sequence, and analyzeImage returns a ForgeryAnalysis whose
\* score has no suspicious-area term
C24_DetectorFailureGivesNoAreas ==
  \A i \in Inv :
    /\ pc[i] = "failed" => ~detectorError[i] /\ elaAnalysis[i].status = "failed"
    /\ (/\ pc[i] \in {"aggregate", "done"}
        /\ detectorError[i] \/ elaAnalysis[i].elaImagePath = NoPath)
       => suspiciousAreas[i] = <<>>
    /\ (pc[i] = "done" /\ detectorError[i]) =>
         /\ Returned(i)
         /\ result[i].suspiciousAreas = <<>>
         /\ result[i].forgeryScore =
              ExpectedScore(FlaggedBy(i) \ ErroredIn(i), 0)

\* the detector fails on a difference image full of flagged blocks; the run
\* returns the score of the five flags alone
C24_Witness ==
  \E i \in Inv :
    /\ pc[i] = "done"
    /\ detectorError[i]
    /\ Len(FlaggedBlocks(GreyBlocks(detectorRead[i]))) > 10
    /\ ErroredIn(i) = {}
    /\ result[i].forgeryScore = 570

\* C25: no run of analyzeImage returns a forgeryScore above 0.67, the value
\* of all five flags with ten or more areas; so no run is reported HIGH RISK
\* and the clamp to 1 never changes the sum
C25_ScoreAtMostSixtySeven ==
  \A i \in Inv :
    Returned(i) =>
      /\ result[i].forgeryScore <= 670
      /\ result[i].analysis.tier # "HIGH RISK"
      /\ result[i].forgeryScore =
           SumOver(FlaggedBy(i) \ ErroredIn(i))
             + 10 * Min(Len(result[i].suspiciousAreas), 10)
      /\ (FlaggedBy(i) = Flags /\ Len(result[i].suspiciousAreas) >= 10)
           => result[i].forgeryScore = 670

\* all five flags and twenty areas: 0.67, MEDIUM RISK
C25_Witness ==
  \E i \in Inv :
    /\ Returned(i)
    /\ FlaggedBy(i) = Flags
    /\ Len(result[i].suspiciousAreas) = maxAreas
    /\ result[i].forgeryScore = 670
    /\ result[i].analysis.tier = "MEDIUM RISK"

\* C26: a run is declared a forgery only when the ELA, compression,
\* metadata and noise flags are all true and at least 4 suspicious areas
\* were returned, at least 8 when the edge flag is false
C26_ForgeryNeedsFourFlags ==
  \A i \in Inv :
    (Returned(i) /\ result[i].isForgery) =>
      /\ {"ela", "compression", "metadata", "noise"} \subseteq FlaggedBy(i)
      /\ Len(result[i].suspiciousAreas) >= 4
      /\ "edges" \notin FlaggedBy(i) => Len(result[i].suspiciousAreas) >= 8

\* a forgery without the edge flag, at exactly 8 areas
C26_Witness ==
  \E i \in Inv :
    /\ Returned(i)
    /\ result[i].isForgery
    /\ FlaggedBy(i) = {"ela", "compression", "metadata", "noise"}
    /\ Len(result[i].suspiciousAreas) = 8

\* C27: with the threshold 0.7, every area the detector returns, merged or
\* not, has intensity > 178.5, confidence > 0.7 and the type
\* high_manipulation or medium_manipulation
C27_ReturnedAreasAboveThreshold ==
  call.fn \in {"detectSuspiciousAreas", "mergeSuspiciousAreas"} =>
    \A k \in 1..Len(ret) :
      /\ 2 * ret[k].intensity > 357 * IntensityScale
      /\ 10 * ret[k].confidence > 7 * 255 * IntensityScale
      /\ ret[k].type \in {"high_manipulation", "medium_manipulation"}

\* two blocks at 179 merged into one area next to a single block at 179
C27_Witness ==
  /\ call.fn = "detectSuspiciousAreas"
  /\ Len(ret) = 2
  /\ "mergedCount" \in DOMAIN ret[1]
  /\ ret[1].mergedCount = 2
  /\ ret[1].intensity = 179 * IntensityScale
  /\ ret[1].type = "medium_manipulation"
  /\ "mergedCount" \notin DOMAIN ret[2]
  /\ ret[2].intensity = 179 * IntensityScale

\* C28: a document whose forgery analysis says isForgery is never reported
\* valid and always has fraudRisk "high", whatever its OCR quality and its
\* format validation
C28_ForgeryNeverValid ==
  (/\ call.fn = "processDocument"
   /\ ret.status = "returned"
   /\ call.args[3].isForgery)
  => /\ ~ret.isValid
     /\ ret.fraudRisk = "high"

\* a forgery with a clean text and a valid format: confidence 0.73, yet
\* not valid and of high risk
C28_Witness ==
  /\ call.fn = "processDocument"
  /\ ret.status = "returned"
  /\ call.args[3].isForgery
  /\ call.args[2].isValid
  /\ assessOCRQuality(call.args[1]) = 1000
  /\ ret.confidence = 7300
  /\ ~ret.isValid
  /\ ret.fraudRisk = "high"

InProgress == {p \in Promises : promiseState[p] = "pending"}

\* what the clients hold is consistent with one initialisation at a time
SingleFlightState ==
  /\ Cardinality(InProgress) <= 1
  /\ \A p \in InProgress : initializationPromise = p /\ aiServices = NoServices
  /\ Cardinality({p \in Promises : promiseState[p] = "fulfilled"}) <= 1
  /\ \A c \in Clients :
       /\ awaited[c].kind = "value" => awaited[c].services = aiServices
       /\ (clientPc[c] = "done" /\ awaited[c].kind = "promise") =>
            LET p == awaited[c].services
            IN  /\ promiseState[p] \in {"fulfilled", "rejected"}
                /\ promiseState[p] = "fulfilled" =>
                     outcome[c] = [kind |-> "value", services |-> aiServices]
                /\ promiseState[p] = "rejected" =>
                     outcome[c] = [kind |-> "error", services |-> p]

\* what a call of initializeAIServices hands its caller
SingleFlightCall(c) ==
  (clientPc[c] = "idle" /\ clientPc'[c] = "awaiting") =>
    /\ aiServices # NoServices =>
         /\ awaited'[c] = [kind |-> "value", services |-> aiServices]
         /\ promiseState' = promiseState
    /\ InProgress # {} =>
         /\ awaited'[c].kind = "promise"
         /\ awaited'[c].services \in InProgress
         /\ promiseState' = promiseState
    /\ (aiServices = NoServices /\ InProgress = {}) =>
         /\ awaited'[c].kind = "promise"
         /\ promiseState[awaited'[c].services] = "unused"
         /\ promiseState'[awaited'[c].services] = "pending"

\* C29: initialisation is single-flight: at most one initialisation is in
\* progress, every request that arrives during it waits for its outcome,
\* after a success every request gets the same instances, and after a
\* failure the next request starts a new initialisation
C29_SingleFlightInitialisation ==
  /\ []SingleFlightState
  /\ [][\A c \in Clients : SingleFlightCall(c)]_vars

\* a failed initialisation two clients waited for, then a second one that
\* succeeded and serves all three clients
C29_Witness ==
  /\ promiseState[1] = "rejected"
  /\ promiseState[2] = "fulfilled"
  /\ aiServices = 2
  /\ \E c, d \in Clients :
       /\ c # d
       /\ outcome[c] = [kind |-> "value", services |-> 2]
       /\ outcome[d] = [kind |-> "value", services |-> 2]
       /\ awaited[c].kind = "promise"
       /\ awaited[d].kind = "value"

\* C30: a cached response is served only to a request with the same image
\* hash and the same validated options as the request it was computed for;
\* two requests that differ in a validated option have different cache keys
C30_CacheKeySeparatesOptions ==
  /\ \A r, q \in Requests :
       (/\ reqPc[r] = "done" /\ reqPc[q] = "done"
        /\ uploaded[r].validatedData # uploaded[q].validatedData)
         => CacheKey(uploaded[r]) # CacheKey(uploaded[q])
  /\ \A r \in Requests :
       (reqPc[r] = "done" /\ response[r].cached) =>
         \E q \in Requests \ {r} :
           /\ reqPc[q] = "done"
           /\ ~response[q].cached
           /\ response[q].id = response[r].id
           /\ uploaded[q] = uploaded[r]

====
